---- MODULE Spec2Model ----
(***************************************************************************)
(* Trajectory ingestion (TrajectoryProcessor, start_processor), the task   *)
(* runner (execute_task_async), the correctness judge                      *)
(* (LLMInterface.evaluate_correctness) and the scoring engine              *)
(* (ScoringEngine.score_task) of AI-Village-v2.                            *)
(*                                                                         *)
(* JSON values are tagged records: [t |-> "null"], [t |-> "str", v |-> s], *)
(* [t |-> "num", v |-> n], [t |-> "list", v |-> <<...>>] and               *)
(* [t |-> "dict", v |-> f] with f a function from key strings to values.   *)
(* A Python string is a sequence of pieces; the piece " " is whitespace.   *)
(***************************************************************************)
EXTENDS Integers, Sequences, FiniteSets, TLC

VARIABLES
    fs,               \* the trajectory directory: path -> name of its content
    pc,               \* position of start_processor
    todo,             \* paths the initial scan has still to visit
    processed_files,  \* TrajectoryProcessor.processed_files
    log,              \* calls the Log Sink accepted, in order
    shots,            \* calls the Screenshot Sink accepted, in order
    events,           \* file system events the observer has still to deliver
    crashed,          \* an exception left a handler or the initial scan
    lastCall,         \* what the latest _process_file invocation did
    failures,         \* paths on which an invocation ended in an exception
    extracted,        \* paths whose document reached _extract_messages_from_json
    nops,             \* number of file system operations so far
    judge,            \* the latest evaluate_correctness call and its result
    scoring,          \* the latest score_task call and its report
    extraction,       \* the latest _extract_messages_from_json call and its result
    threads,          \* position of each thread inside _process_file
    worker            \* execute_task_async: the running task and every task's observer

vars == <<fs, pc, todo, processed_files, log, shots, events, crashed,
          lastCall, failures, extracted, nops, judge,
          scoring, extraction, threads, worker>>

watcherVars == <<fs, pc, todo, processed_files, log, shots, events, crashed,
                 lastCall, failures, extracted, nops>>

otherCalls == <<scoring, extraction, threads, worker>>

---------------------------------------------------------------------------
(* Bounds of the model *)

\* file system operations of the agent in one run
MaxFsOps == 1
\* characters in the text of a judge reply
MaxLen == 3

---------------------------------------------------------------------------
(* JSON values and Python's view of them *)

Null == [t |-> "null"]
Str(s) == [t |-> "str", v |-> s]
Num(n) == [t |-> "num", v |-> n]
List(l) == [t |-> "list", v |-> l]
Dict(d) == [t |-> "dict", v |-> d]
Text(w) == Str(<<w>>)

IsDict(x) == x.t = "dict"
IsList(x) == x.t = "list"
IsStr(x) == x.t = "str"

Has(d, k) == k \in DOMAIN d.v
Get(d, k) == IF Has(d, k) THEN d.v[k] ELSE Null
GetD(d, k, dflt) == IF Has(d, k) THEN d.v[k] ELSE dflt
IsText(x, w) == IsStr(x) /\ x.v = <<w>>

Truthy(x) ==
    CASE x.t = "null" -> FALSE
      [] x.t = "str" -> Len(x.v) > 0
      [] x.t = "num" -> x.v # 0
      [] x.t = "list" -> Len(x.v) > 0
      [] x.t = "dict" -> DOMAIN x.v # {}

PyOr(a, b) == IF Truthy(a) THEN a ELSE b

WS == {" "}

RECURSIVE LStrip(_)
LStrip(s) == IF s # <<>> /\ Head(s) \in WS THEN LStrip(Tail(s)) ELSE s

RECURSIVE RStrip(_)
RStrip(s) ==
    IF s # <<>> /\ s[Len(s)] \in WS THEN RStrip(SubSeq(s, 1, Len(s) - 1)) ELSE s

Strip(s) == RStrip(LStrip(s))

RECURSIVE Concat(_)
Concat(ss) == IF ss = <<>> THEN <<>> ELSE Head(ss) \o Concat(Tail(ss))

Occurrences(seq, x) == Cardinality({i \in DOMAIN seq : seq[i] = x})

KeyOrder ==
    <<"response", "output", "role", "type", "text", "result", "message",
      "content", "response_text", "image_url", "image", "screenshot",
      "screenshot_path", "image_path", "trajectory", "step">>

DictKeys(d) == SelectSeq(KeyOrder, LAMBDA k : Has(d, k))

---------------------------------------------------------------------------
(* _extract_messages_from_json *)

TextOf(x) == IF IsStr(x) /\ Strip(x.v) # <<>> THEN <<Strip(x.v)>> ELSE <<>>

ContentItemTexts(ci) ==
    IF ~IsDict(ci) THEN <<>>
    ELSE IF IsText(Get(ci, "type"), "output_text") THEN TextOf(Get(ci, "text"))
    ELSE IF Has(ci, "text") THEN TextOf(Get(ci, "text"))
    ELSE <<>>

ContentListTexts(content) ==
    Concat([i \in 1..Len(content.v) |-> ContentItemTexts(content.v[i])])

EnvelopeItemTexts(item) ==
    IF IsDict(item) /\ IsText(Get(item, "type"), "message")
    THEN LET content == GetD(item, "content", List(<<>>))
         IN  IF IsList(content) THEN ContentListTexts(content) ELSE <<>>
    ELSE <<>>

OutputItemTexts(item) ==
    IF IsDict(item) /\ IsText(Get(item, "type"), "message")
    THEN LET content == GetD(item, "content", List(<<>>))
         IN  IF IsList(content) THEN ContentListTexts(content) ELSE TextOf(content)
    ELSE <<>>

Schema1(data) ==
    IF Has(data, "response") /\ IsDict(data.v["response"])
       /\ Has(data.v["response"], "output")
       /\ IsList(data.v["response"].v["output"])
    THEN LET output == data.v["response"].v["output"].v
         IN  Concat([i \in 1..Len(output) |-> EnvelopeItemTexts(output[i])])
    ELSE <<>>

Schema2(data) ==
    IF Has(data, "output") /\ IsList(data.v["output"])
    THEN LET output == data.v["output"].v
         IN  Concat([i \in 1..Len(output) |-> OutputItemTexts(output[i])])
    ELSE <<>>

RoleItemTexts(item) ==
    IF IsDict(item) /\ Has(item, "text") THEN TextOf(Get(item, "text"))
    ELSE TextOf(item)

Schema3(data) ==
    IF IsText(Get(data, "role"), "assistant") /\ Has(data, "content")
    THEN LET content == data.v["content"]
         IN  IF IsStr(content) /\ Strip(content.v) # <<>> THEN <<Strip(content.v)>>
             ELSE IF IsList(content)
             THEN Concat([i \in 1..Len(content.v) |-> RoleItemTexts(content.v[i])])
             ELSE <<>>
    ELSE <<>>

FlatFields == <<"text", "result", "message", "content", "response_text">>

FlatFieldTexts(data, field) ==
    IF ~Has(data, field) THEN <<>>
    ELSE LET value == data.v[field]
         IN  IF IsStr(value) /\ Strip(value.v) # <<>> THEN <<Strip(value.v)>>
             ELSE IF IsDict(value) /\ Has(value, "text") THEN TextOf(Get(value, "text"))
             ELSE <<>>

Schema4(data) ==
    Concat([i \in 1..Len(FlatFields) |-> FlatFieldTexts(data, FlatFields[i])])

Schema5(data) ==
    IF Has(data, "result") /\ IsDict(data.v["result"])
    THEN LET result == data.v["result"]
         IN  (IF Has(result, "text") THEN TextOf(Get(result, "text")) ELSE <<>>)
             \o (IF Has(result, "output") THEN TextOf(result.v["output"]) ELSE <<>>)
    ELSE <<>>

\* The nested result shape left out.
ExtractWithoutNestedResult(data) ==
    IF ~IsDict(data) THEN <<>>
    ELSE Schema1(data) \o Schema2(data) \o Schema3(data) \o Schema4(data)

\* The flat fields read after the nested result.
ExtractFlatFieldsLast(data) ==
    IF ~IsDict(data) THEN <<>>
    ELSE Schema1(data) \o Schema2(data) \o Schema3(data) \o Schema5(data)
         \o Schema4(data)

ExtractMessages(data) ==
    IF ~IsDict(data) THEN <<>>
    ELSE Schema1(data) \o Schema2(data) \o Schema3(data) \o Schema4(data)
         \o Schema5(data)

---------------------------------------------------------------------------
(* Image files on disk, and the two screenshot stores.  A step is one      *)
(* statement of _process_file that reaches a sink or raises.               *)

AbsImages == {<<"abs.png">>}
RootImages == {<<"rel.png">>}
B64Ok == {"QUJD"}

ExistsAbs(p) == p \in AbsImages
ExistsUnderRoot(p) == p \in RootImages

Step(op, msg, ref, n) == [op |-> op, msg |-> msg, ref |-> ref, n |-> n]
ShotStep(ref) == Step("shot", <<>>, ref, 0)
InfoStep(msg) == Step("info", msg, <<>>, 0)
RaiseStep == Step("raise", <<>>, <<>>, 0)

StartsWithDataImage(s) == Len(s) > 0 /\ s[1] = "data:image"

RECURSIVE AfterComma(_)
AfterComma(s) ==
    IF s = <<>> THEN <<>> ELSE IF Head(s) = "," THEN Tail(s) ELSE AfterComma(Tail(s))

HasComma(s) == \E i \in 1..Len(s) : s[i] = ","

store_screenshot(x) ==
    IF ~IsStr(x) THEN <<>>
    ELSE IF ExistsAbs(x.v) \/ ExistsUnderRoot(x.v) THEN <<ShotStep(x.v)>>
    ELSE <<>>

store_screenshot_base64(x) ==
    LET part == IF HasComma(x.v) THEN AfterComma(x.v) ELSE x.v
    IN  IF \A i \in 1..Len(part) : part[i] \in B64Ok THEN <<ShotStep(x.v)>> ELSE <<>>

ImageKeys == <<"screenshot", "image", "screenshot_path", "image_path">>

TrajectoryKeySteps(td, key) ==
    IF Has(td, key) /\ IsStr(td.v[key])
    THEN IF StartsWithDataImage(td.v[key].v) THEN store_screenshot_base64(td.v[key])
         ELSE IF ExistsAbs(td.v[key].v) THEN store_screenshot(td.v[key])
         ELSE <<>>
    ELSE <<>>

RECURSIVE process_trajectory_data(_)
process_trajectory_data(td) ==
    IF IsDict(td)
    THEN Concat([i \in 1..Len(ImageKeys) |-> TrajectoryKeySteps(td, ImageKeys[i])])
         \o LET ks == DictKeys(td)
            IN  Concat([i \in 1..Len(ks) |->
                    IF IsDict(td.v[ks[i]]) \/ IsList(td.v[ks[i]])
                    THEN process_trajectory_data(td.v[ks[i]]) ELSE <<>>])
    ELSE IF IsList(td)
    THEN Concat([i \in 1..Len(td.v) |->
             IF IsDict(td.v[i]) \/ IsList(td.v[i])
             THEN process_trajectory_data(td.v[i]) ELSE <<>>])
    ELSE <<>>

ContentPartSteps(cp) ==
    IF ~IsDict(cp) THEN <<>>
    ELSE LET image_url == PyOr(Get(cp, "image_url"), Get(cp, "image"))
         IN  IF Truthy(image_url) /\ IsStr(image_url)
             THEN IF StartsWithDataImage(image_url.v)
                  THEN store_screenshot_base64(image_url)
                  ELSE IF ExistsAbs(image_url.v) THEN store_screenshot(image_url)
                  ELSE <<>>
             ELSE <<>>

LegacyItemSteps(item) ==
    IF ~IsDict(item) THEN <<RaiseStep>>
    ELSE IF IsText(Get(item, "type"), "message")
    THEN LET content == GetD(item, "content", List(<<>>))
         IN  IF IsList(content)
             THEN Concat([i \in 1..Len(content.v) |-> ContentPartSteps(content.v[i])])
             ELSE IF IsStr(content) \/ IsDict(content) THEN <<>>
             ELSE <<RaiseStep>>
    ELSE <<>>

LegacyOutputSteps(data) ==
    IF ~Has(data, "output") THEN <<>>
    ELSE LET output == data.v["output"]
         IN  IF IsList(output)
             THEN Concat([i \in 1..Len(output.v) |-> LegacyItemSteps(output.v[i])])
             ELSE IF (IsStr(output) \/ IsDict(output)) /\ ~Truthy(output) THEN <<>>
             ELSE <<RaiseStep>>

ComputerCallSteps(data) ==
    IF Has(data, "type") /\ IsText(Get(data, "type"), "computer_call_output")
    THEN LET screenshot_path == PyOr(Get(data, "screenshot_path"), Get(data, "image_path"))
             image_data == PyOr(Get(data, "image"), Get(data, "screenshot"))
         IN  (IF Truthy(screenshot_path) THEN store_screenshot(screenshot_path) ELSE <<>>)
             \o (IF Truthy(image_data) /\ IsStr(image_data)
                    /\ StartsWithDataImage(image_data.v)
                 THEN store_screenshot_base64(image_data) ELSE <<>>)
    ELSE <<>>

TrajectorySteps(data) ==
    IF Has(data, "trajectory") THEN process_trajectory_data(data.v["trajectory"])
    ELSE <<>>

\* The summary carrying the count whatever was extracted.
SummaryAlwaysCount(messages) == Step("count", <<>>, <<>>, Len(messages))

\* if not extracted_messages: the raw document, else the count (lines 208-222)
SummaryStep(messages) ==
    IF messages = <<>> THEN Step("summary", <<>>, <<>>, 0)
    ELSE Step("count", <<>>, <<>>, Len(messages))

\* The statements of _process_file after json.load, in program order.
FileSteps(data) ==
    LET messages == ExtractMessages(data)
    IN  (IF IsDict(data)
         THEN [i \in 1..Len(messages) |-> InfoStep(messages[i])]
              \o LegacyOutputSteps(data) \o ComputerCallSteps(data)
              \o TrajectorySteps(data)
         ELSE <<>>)
        \o <<SummaryStep(messages)>>

---------------------------------------------------------------------------
(* The files of the trajectory directory.  A file is absent, holds text    *)
(* that is not JSON ("garbage"), or holds one of the documents below.      *)

JsonPaths == {"a.json", "b.json"}
EndsWithJson(p) == p \in JsonPaths

MessageItem(content) == Dict([type |-> Text("message"), content |-> content])

Doc(name) ==
    CASE name = "msg" ->
           \* {"output": [{"type": "message", "content": [{"type": "output_text", "text": " hi "}]}]}
           Dict([output |-> List(<<MessageItem(List(<<
               Dict([type |-> Text("output_text"), text |-> Str(<<" ", "hi", " ">>)])>>))>>)])
      [] name = "baditem" ->
           \* {"text": "t", "output": ["x"]}
           Dict([text |-> Text("t"), output |-> List(<<Text("x")>>)])
      [] name = "badoutput" ->
           \* {"output": "oops"}
           Dict([output |-> Text("oops")])
      [] name = "dupshot" ->
           \* {"trajectory": {"screenshot": "abs.png", "screenshot_path": "abs.png"}}
           Dict([trajectory |->
               Dict([screenshot |-> Text("abs.png"), screenshot_path |-> Text("abs.png")])])
      [] name = "cco" ->
           \* {"type": "computer_call_output", "screenshot_path": "rel.png",
           \*  "image": "data:image,QUJD",
           \*  "trajectory": [{"step": {"image_path": "abs.png", "screenshot": "rel.png"}}]}
           Dict([type |-> Text("computer_call_output"),
                 screenshot_path |-> Text("rel.png"),
                 image |-> Str(<<"data:image", ",", "QUJD">>),
                 trajectory |-> List(<<Dict([step |->
                     Dict([image_path |-> Text("abs.png"), screenshot |-> Text("rel.png")])])>>)])
      [] name = "ccodup" ->
           \* {"type": "computer_call_output", "screenshot_path": "abs.png",
           \*  "trajectory": {"image_path": "abs.png"}}
           Dict([type |-> Text("computer_call_output"),
                 screenshot_path |-> Text("abs.png"),
                 trajectory |-> Dict([image_path |-> Text("abs.png")])])
      [] name = "img" ->
           \* {"output": [{"type": "message", "content":
           \*    [{"text": "see", "image_url": "data:image,Q"}, {"image": "abs.png"},
           \*     {"image": "gone.png"}, {"image": "rel.png"}]}]}
           Dict([output |-> List(<<MessageItem(List(<<
               Dict([text |-> Text("see"), image_url |-> Str(<<"data:image", ",", "Q">>)]),
               Dict([image |-> Text("abs.png")]),
               Dict([image |-> Text("gone.png")]),
               Dict([image |-> Text("rel.png")])>>))>>)])
      [] name = "list" ->
           \* [1]
           List(<<Num(1)>>)

DocNames ==
    {"msg", "baditem", "badoutput", "dupshot", "cco", "ccodup", "img", "list"}

Contents == {"absent", "garbage"} \cup DocNames

\* What each file may hold: a.json any content, b.json (the other file of a
\* scan) a plain message document, text that is not JSON, or nothing.
ContentsOf(p) == IF p = "a.json" THEN Contents ELSE {"absent", "garbage", "msg"}

---------------------------------------------------------------------------
(* _process_file *)

LogOps == {"info", "summary", "count"}

StepsOf(p) == IF fs[p] \in DocNames THEN FileSteps(Doc(fs[p])) ELSE <<>>

\* The step at index i raises: a Python error on an unexpected value, or a
\* write_log call (not guarded at its call site) that the sink fails.
Raises(steps, fail, i) ==
    \/ steps[i].op = "raise"
    \/ steps[i].op \in LogOps /\ i \in fail

CutAt(steps, fail) ==
    IF \E i \in 1..Len(steps) : Raises(steps, fail, i)
    THEN CHOOSE i \in 1..Len(steps) :
             /\ Raises(steps, fail, i)
             /\ \A j \in 1..(i - 1) : ~Raises(steps, fail, j)
    ELSE Len(steps) + 1

\* The sink calls that succeed before the first raise; a failing
\* store_screenshot is caught inside _store_screenshot (lines 246, 266).
Accepted(steps, fail) ==
    LET c == CutAt(steps, fail)
        idx == SelectSeq([i \in 1..(c - 1) |-> i],
                         LAMBDA i : ~(steps[i].op = "shot" /\ i \in fail))
    IN  [k \in 1..Len(idx) |-> steps[idx[k]]]

ExcKind(steps, fail) ==
    LET c == CutAt(steps, fail)
    IN  IF c > Len(steps) THEN "none"
        ELSE IF steps[c].op = "raise" THEN "type" ELSE "sink"

LogEntry(p, st, cid) ==
    [file |-> p, level |-> IF st.op = "info" THEN "info" ELSE "debug",
     kind |-> st.op, msg |-> st.msg, n |-> st.n, cid |-> cid]

ShotEntry(p, st, cid) == [file |-> p, ref |-> st.ref, cid |-> cid]

IsLogStep(st) == st.op \in LogOps
IsShotStep(st) == st.op = "shot"

NewLogs(p, acc, cid) ==
    LET l == SelectSeq(acc, IsLogStep) IN [k \in 1..Len(l) |-> LogEntry(p, l[k], cid)]

NewShots(p, acc, cid) ==
    LET l == SelectSeq(acc, IsShotStep) IN [k \in 1..Len(l) |-> ShotEntry(p, l[k], cid)]

\* Identifies an invocation by the number of sink calls accepted before it
\* began: two invocations that both reach a sink get different identities.
CallId == Len(log) + Len(shots)

Called(p, via, outcome) == [path |-> p, via |-> via, outcome |-> outcome]

\* except Exception, narrowed to the errors of opening and parsing the file.
CaughtIOOnly(kind) == kind \in {"open", "json"}

\* except Exception (line 224): every exception raised in the try block is caught.
Caught(kind) == kind \in {"open", "json", "type", "sink"}

\* The membership test left out.
NeverProcessed(p) == FALSE

\* if str(file_path) in self.processed_files: return (lines 148-149)
AlreadyProcessed(p) == p \in processed_files

process_file(p, fail, via) ==
    IF AlreadyProcessed(p)
    THEN /\ lastCall' = Called(p, via, "skipped")
         /\ UNCHANGED <<processed_files, log, shots, crashed, failures, extracted>>
    ELSE IF fs[p] = "absent"
    THEN /\ lastCall' = Called(p, via, "open_failed")
         /\ crashed' = (crashed \/ ~Caught("open"))
         /\ failures' = failures \cup {p}
         /\ UNCHANGED <<processed_files, log, shots, extracted>>
    ELSE IF fs[p] = "garbage"
    THEN /\ lastCall' = Called(p, via, "parse_failed")
         /\ crashed' = (crashed \/ ~Caught("json"))
         /\ failures' = failures \cup {p}
         /\ UNCHANGED <<processed_files, log, shots, extracted>>
    ELSE LET steps == StepsOf(p)
             acc == Accepted(steps, fail)
             exc == ExcKind(steps, fail)
         IN  /\ processed_files' = processed_files \cup {p}
             /\ extracted' = IF IsDict(Doc(fs[p])) THEN extracted \cup {p}
                             ELSE extracted
             /\ log' = log \o NewLogs(p, acc, CallId)
             /\ shots' = shots \o NewShots(p, acc, CallId)
             /\ lastCall' = Called(p, via, IF exc = "none" THEN "completed" ELSE "aborted")
             /\ failures' = IF exc = "none" THEN failures ELSE failures \cup {p}
             /\ crashed' = (crashed \/ (exc # "none" /\ ~Caught(exc)))

FailSets(p) == SUBSET (1..Len(StepsOf(p)))

---------------------------------------------------------------------------
(* TrajectoryProcessor.__init__, _process_existing, start_processor and    *)
(* the observer's callbacks                                                *)

JudgeIdle == [phase |-> "idle"]

ScoringIdle == [phase |-> "idle"]

ExtractionIdle == [phase |-> "idle"]

NoThreads == <<>>

\* Tasks are executed one after another by one worker process.
MaxTasks == 2
Tasks == 1..MaxTasks

NoObserver == [pc |-> "none", pending |-> {}, processed_files |-> {}]

WorkerIdle == [cur |-> 0, returned |-> {}, observers |-> [k \in Tasks |-> NoObserver]]

Init ==
    /\ fs \in {f \in [JsonPaths -> Contents] : \A p \in JsonPaths : f[p] \in ContentsOf(p)}
    /\ pc = "start"
    /\ todo = {}
    /\ processed_files = {}
    /\ log = <<>>
    /\ shots = <<>>
    /\ events = <<>>
    /\ crashed = FALSE
    /\ lastCall = Called("", "none", "none")
    /\ failures = {}
    /\ extracted = {}
    /\ nops = 0
    /\ judge = JudgeIdle
    /\ scoring = ScoringIdle
    /\ extraction = ExtractionIdle
    /\ threads = NoThreads
    /\ worker = WorkerIdle

\* __init__ (lines 31-41) up to the rglob of _process_existing (line 142).
Construct ==
    /\ pc = "start"
    /\ pc' = "scan"
    /\ processed_files' = {}
    /\ todo' = {p \in JsonPaths : fs[p] # "absent"}
    /\ UNCHANGED <<fs, log, shots, events, crashed, lastCall, failures, extracted,
                   nops, judge, otherCalls>>

\* An exception that leaves _process_existing ends the constructor, and one
\* that leaves a callback ends the observer's dispatching thread.
ScanRuns == pc = "scan" /\ ~crashed
ObserverRuns == pc = "watching" /\ ~crashed

\* One iteration of the loop of _process_existing (lines 142-144).
ScanStep ==
    /\ ScanRuns
    /\ \E p \in todo :
         /\ todo' = todo \ {p}
         /\ IF p \notin processed_files
            THEN \E fail \in FailSets(p) : process_file(p, fail, "scan")
            ELSE UNCHANGED <<processed_files, log, shots, crashed, lastCall, failures, extracted>>
    /\ UNCHANGED <<fs, pc, events, nops, judge, otherCalls>>

\* The scan is over; start_processor creates and schedules the observer
\* (lines 311-312), which does not watch yet.
ScanDone ==
    /\ ScanRuns /\ todo = {}
    /\ pc' = "scheduled"
    /\ UNCHANGED <<fs, todo, processed_files, log, shots, events, crashed,
                   lastCall, failures, extracted, nops, judge, otherCalls>>

\* observer.start() (line 313).
ObserverStart ==
    /\ pc = "scheduled"
    /\ pc' = "watching"
    /\ UNCHANGED <<fs, todo, processed_files, log, shots, events, crashed,
                   lastCall, failures, extracted, nops, judge, otherCalls>>

Handle(e) ==
    IF e.is_directory THEN
        UNCHANGED <<processed_files, log, shots, crashed, lastCall, failures, extracted>>
    ELSE IF EndsWithJson(e.src_path) THEN
        \E fail \in FailSets(e.src_path) : process_file(e.src_path, fail, e.kind)
    ELSE
        UNCHANGED <<processed_files, log, shots, crashed, lastCall, failures, extracted>>

on_created ==
    /\ ObserverRuns
    /\ events # <<>> /\ Head(events).kind = "created"
    /\ Handle(Head(events))
    /\ events' = Tail(events)
    /\ UNCHANGED <<fs, pc, todo, nops, judge, otherCalls>>

on_modified ==
    /\ ObserverRuns
    /\ events # <<>> /\ Head(events).kind = "modified"
    /\ Handle(Head(events))
    /\ events' = Tail(events)
    /\ UNCHANGED <<fs, pc, todo, nops, judge, otherCalls>>

\* A caller that holds the processor calls _process_file itself.
DirectCall ==
    /\ pc \in {"scheduled", "watching"} /\ ~crashed
    /\ \E p \in JsonPaths : \E fail \in FailSets(p) : process_file(p, fail, "direct")
    /\ UNCHANGED <<fs, pc, todo, events, nops, judge, otherCalls>>

---------------------------------------------------------------------------
(* The agent writing the trajectory directory *)

Event(kind, p, dir) == [kind |-> kind, src_path |-> p, is_directory |-> dir]

Notify(kind, p, dir) ==
    events' = IF pc = "watching" THEN Append(events, Event(kind, p, dir)) ELSE events

EnvCreate ==
    /\ nops < MaxFsOps
    /\ \E p \in JsonPaths : \E c \in ContentsOf(p) \ {"absent"} :
         /\ fs[p] = "absent"
         /\ fs' = [fs EXCEPT ![p] = c]
         /\ Notify("created", p, FALSE)
         \* the directory walk of a running scan may or may not see the new file
         /\ \E seen \in BOOLEAN :
              todo' = IF pc = "scan" /\ seen THEN todo \cup {p} ELSE todo
    /\ nops' = nops + 1
    /\ UNCHANGED <<pc, processed_files, log, shots, crashed, lastCall, failures,
                   extracted, judge, otherCalls>>

EnvModify ==
    /\ nops < MaxFsOps
    /\ \E p \in JsonPaths : \E c \in ContentsOf(p) \ {"absent"} :
         /\ fs[p] # "absent"
         /\ fs' = [fs EXCEPT ![p] = c]
         /\ Notify("modified", p, FALSE)
    /\ nops' = nops + 1
    /\ UNCHANGED <<pc, todo, processed_files, log, shots, crashed, lastCall, failures, extracted, judge, otherCalls>>

EnvDelete ==
    /\ nops < MaxFsOps
    /\ \E p \in JsonPaths :
         /\ fs[p] # "absent"
         /\ fs' = [fs EXCEPT ![p] = "absent"]
    /\ nops' = nops + 1
    /\ UNCHANGED <<pc, todo, processed_files, log, shots, events, crashed,
                   lastCall, failures, extracted, judge, otherCalls>>

\* A file that is not *.json, or a subdirectory, is created or modified.
EnvOther ==
    /\ nops < MaxFsOps
    /\ \/ Notify("created", "sub.json", TRUE)
       \/ Notify("modified", "notes.txt", FALSE)
    /\ nops' = nops + 1
    /\ UNCHANGED <<fs, pc, todo, processed_files, log, shots, crashed, lastCall, failures, extracted, judge, otherCalls>>

Next ==
    \/ Construct
    \/ ScanStep
    \/ ScanDone
    \/ ObserverStart
    \/ on_created
    \/ on_modified
    \/ DirectCall
    \/ EnvCreate
    \/ EnvModify
    \/ EnvDelete
    \/ EnvOther

Spec == Init /\ [][Next]_vars

---------------------------------------------------------------------------
(* Properties of the Trajectory Watcher *)

LogOf(p, l) == SelectSeq(l, LAMBDA e : e.file = p)
ShotsOf(p, sh) == SelectSeq(sh, LAMBDA e : e.file = p)

CallsOf(p) ==
    {log[i].cid : i \in {j \in DOMAIN log : log[j].file = p}}
    \cup {shots[i].cid : i \in {j \in DOMAIN shots : shots[j].file = p}}

OneCallPerPath == \A p \in JsonPaths : Cardinality(CallsOf(p)) <= 1

ProcessedIsFinal ==
    \A p \in processed_files :
        /\ p \in processed_files'
        /\ LogOf(p, log') = LogOf(p, log)
        /\ ShotsOf(p, shots') = ShotsOf(p, shots)

\* C1: the log writes and screenshot stores of one path all come from a single
\* _process_file invocation, and once the path is in processed_files no later
\* call (scan, create event, modify event after the content changed, direct
\* call) adds a sink call for it or removes it from processed_files.
C1_AtMostOnePerPath == []OneCallPerPath /\ [][ProcessedIsFinal]_vars

\* A modify event for a path whose first processing reached a sink, handled
\* after the content of the file changed, was skipped.
C1_Witness ==
    /\ lastCall.outcome = "skipped" /\ lastCall.via = "modified"
    /\ nops >= 1
    /\ LogOf(lastCall.path, log) # <<>>

\* C2: when _process_file ends in a JSON parse failure, the path is in
\* processed_files when the call returns.
C2_ParseFailureMarksProcessed ==
    lastCall.outcome = "parse_failed" => lastCall.path \in processed_files

HoldsObject(p) == fs[p] \in DocNames /\ IsDict(Doc(fs[p]))

\* start_processor has returned and the observer has handled every event
\* delivered to it: nothing more happens until the directory changes again.
Quiescent == pc = "watching" /\ events = <<>> /\ ~crashed

\* C3: every *.json file that holds a JSON object, whether it existed when
\* start_processor was called or was written at any later moment, has been
\* passed to the extractor once the watcher has nothing left to do.
C3_EventuallyExtracted ==
    Quiescent => \A p \in JsonPaths : HoldsObject(p) => p \in extracted

\* C4: no exception leaves _process_file, a callback or the initial scan:
\* whatever failed before, the scan can visit its next file and the observer
\* can deliver its next event.
C4_NoExceptionEscapes ==
    /\ ~crashed
    /\ pc = "scan" => ScanRuns
    /\ pc = "watching" => ObserverRuns

\* A file was processed to its end after an invocation on another file failed.
C4_Witness ==
    /\ lastCall.outcome = "completed"
    /\ failures \ {lastCall.path} # {}

Summaries(p) == {i \in DOMAIN log : log[i].file = p /\ log[i].level = "debug"}

\* C5: every file whose JSON parsed has exactly one debug summary entry.
C5_ExactlyOneSummary ==
    \A p \in processed_files : Cardinality(Summaries(p)) = 1

\* C6: store_screenshot is called at most once for each (file, image
\* reference) pair.
C6_ShotOncePerReference ==
    \A i, j \in DOMAIN shots :
        i < j => ~(shots[i].file = shots[j].file /\ shots[i].ref = shots[j].ref)

---------------------------------------------------------------------------
(* Exact arithmetic for scores: the pair <<n, d>> with d > 0 is n / d.     *)

RECURSIVE GCD(_, _)
GCD(a, b) == IF b = 0 THEN a ELSE GCD(b, a % b)

Abs(n) == IF n < 0 THEN -n ELSE n

Rat(n, d) ==
    IF n = 0 THEN <<0, 1>>
    ELSE LET g == GCD(Abs(n), d) IN <<n \div g, d \div g>>

\* The two numerators over the least common denominator.
Common(a, b) ==
    LET g == GCD(a[2], b[2])
    IN  <<a[1] * (b[2] \div g), b[1] * (a[2] \div g), (a[2] \div g) * b[2]>>

\* Equal denominators need no common denominator.
RLt(a, b) ==
    IF a[2] = b[2] THEN a[1] < b[1] ELSE LET c == Common(a, b) IN c[1] < c[2]
RLe(a, b) ==
    IF a[2] = b[2] THEN a[1] <= b[1] ELSE LET c == Common(a, b) IN c[1] <= c[2]
RAdd(a, b) ==
    IF a[2] = b[2] THEN Rat(a[1] + b[1], a[2])
    ELSE LET c == Common(a, b) IN Rat(c[1] + c[2], c[3])
RSub(a, b) ==
    IF a[2] = b[2] THEN Rat(a[1] - b[1], a[2])
    ELSE LET c == Common(a, b) IN Rat(c[1] - c[2], c[3])
RMul(a, b) ==
    IF a[1] = 0 \/ b[1] = 0 THEN <<0, 1>>
    ELSE LET x == Rat(a[1], b[2])
             y == Rat(b[1], a[2])
         IN  Rat(x[1] * y[1], x[2] * y[2])
RMin(a, b) == IF RLe(a, b) THEN a ELSE b
RMax(a, b) == IF RLe(a, b) THEN b ELSE a

Zero == Rat(0, 1)
One == Rat(1, 1)

---------------------------------------------------------------------------
(* LLMInterface._fallback_correctness.  A request or output is a sequence  *)
(* of words and of " " pieces.                                             *)

CharLen(w) ==
    CASE w \in {"Open", "open", "file"} -> 4
      [] w = "the" -> 3
      [] w = "ok" -> 2
      [] w = "browser" -> 7
      [] w = " " -> 1

Lower(w) == CASE w = "Open" -> "open" [] w = "Done" -> "done" [] OTHER -> w

RECURSIVE StrLen(_)
StrLen(s) == IF s = <<>> THEN 0 ELSE CharLen(Head(s)) + StrLen(Tail(s))

stop_words ==
    {"the", "a", "an", "and", "or", "but", "in", "on", "at", "to", "for", "of",
     "with", "by", "is", "are", "was", "were", "be", "been", "have", "has",
     "had", "do", "does", "did", "will", "would", "should", "could", "may",
     "might", "must", "can"}

\* set(word for word in s.lower().split() if word not in stop_words and len(word) > 2)
Keywords(s) ==
    {Lower(s[i]) : i \in {j \in 1..Len(s) :
        s[j] \notin WS /\ Lower(s[j]) \notin stop_words /\ CharLen(s[j]) > 2}}

fallback_correctness(initial_request, final_output) ==
    IF initial_request = <<>> THEN (IF final_output # <<>> THEN Rat(3, 10) ELSE Zero)
    ELSE IF final_output = <<>> THEN Zero
    ELSE
    LET request_words == Keywords(initial_request)
        output_words == Keywords(final_output)
        common_words == request_words \cap output_words
        li == StrLen(initial_request)
        lo == StrLen(final_output)
    IN  IF Cardinality(request_words) = 0 THEN Rat(4, 10)
        ELSE
        LET keyword_match_ratio == Rat(Cardinality(common_words), Cardinality(request_words))
            min_output_length == RMax(Rat(10, 1), Rat(li * 2, 10))
            length_ratio == RMin(One, Rat(lo, IF li > 1 THEN li ELSE 1))
            length_penalty ==
                IF RLt(Rat(lo, 1), min_output_length) THEN Rat(3, 10)
                ELSE RSub(One, RMul(RSub(One, length_ratio), Rat(3, 10)))
            score == RAdd(RMul(Rat(7, 10), keyword_match_ratio),
                          RMul(Rat(3, 10), length_penalty))
            floored == IF Cardinality(common_words) > 0 /\ lo > 0
                       THEN RMax(Rat(3, 10), score) ELSE score
        IN  RMax(Zero, RMin(One, floored))

---------------------------------------------------------------------------
(* LLMInterface.evaluate_correctness.  The text of a reply is a sequence   *)
(* of characters.                                                          *)

Digits == {"0", "1", "5", "7"}
ReplyChars == Digits \cup {".", "-", "%"}

DigitVal(c) == CASE c = "0" -> 0 [] c = "1" -> 1 [] c = "5" -> 5 [] c = "7" -> 7

AllDigits(s) == \A i \in 1..Len(s) : s[i] \in Digits

RECURSIVE IntOf(_)
IntOf(s) == IF s = <<>> THEN 0 ELSE IntOf(SubSeq(s, 1, Len(s) - 1)) * 10 + DigitVal(s[Len(s)])

RECURSIVE Pow10(_)
Pow10(k) == IF k = 0 THEN 1 ELSE 10 * Pow10(k - 1)

\* The value of the digits ip, a point and the digits fp.
Decimal(ip, fp) == Rat(IntOf(ip \o fp), Pow10(Len(fp)))

DotAt(s) == IF \E i \in 1..Len(s) : s[i] = "." THEN CHOOSE i \in 1..Len(s) : s[i] = "." ELSE 0

\* An unsigned text that float() accepts: digits, digits with a point and
\* optional digits, or a point with digits.
IsUnsignedFloat(s) ==
    LET d == DotAt(s)
    IN  IF d = 0 THEN s # <<>> /\ AllDigits(s)
        ELSE /\ AllDigits(SubSeq(s, 1, d - 1))
             /\ AllDigits(SubSeq(s, d + 1, Len(s)))
             /\ Len(s) > 1

UnsignedValue(s) ==
    LET d == DotAt(s)
    IN  IF d = 0 THEN Decimal(s, <<>>)
        ELSE Decimal(SubSeq(s, 1, d - 1), SubSeq(s, d + 1, Len(s)))

\* float(content) of line 120: a record with ok = FALSE stands for ValueError.
PyFloat(s) ==
    IF s # <<>> /\ Head(s) = "-" /\ IsUnsignedFloat(Tail(s))
    THEN [ok |-> TRUE, v |-> RSub(Zero, UnsignedValue(Tail(s)))]
    ELSE IF IsUnsignedFloat(s) THEN [ok |-> TRUE, v |-> UnsignedValue(s)]
    ELSE [ok |-> FALSE, v |-> Zero]

\* The end of the longest run of digits that starts at index i.
RECURSIVE DigitRunEnd(_, _)
DigitRunEnd(s, i) ==
    IF i + 1 <= Len(s) /\ s[i + 1] \in Digits THEN DigitRunEnd(s, i + 1) ELSE i

\* re.search(r'([0-9]+(?:\.[0-9]+)?)', content) of line 124.
RegexNumber(s) ==
    IF ~\E i \in 1..Len(s) : s[i] \in Digits THEN [ok |-> FALSE, v |-> Zero]
    ELSE LET b == CHOOSE i \in 1..Len(s) :
                     s[i] \in Digits /\ \A j \in 1..(i - 1) : s[j] \notin Digits
             e == DigitRunEnd(s, b)
             frac == e + 2 <= Len(s) /\ s[e + 1] = "." /\ s[e + 2] \in Digits
             f == IF frac THEN DigitRunEnd(s, e + 2) ELSE e
         IN  [ok |-> TRUE,
              v |-> IF frac THEN Decimal(SubSeq(s, b, e), SubSeq(s, e + 2, f))
                    ELSE Decimal(SubSeq(s, b, e), <<>>)]

\* The direct conversion alone, without the search for a number in the text.
ParseScoreDirectOnly(content) == PyFloat(content)

\* Lines 116-129: direct conversion first, then the first number in the text.
ParseScore(content) ==
    IF PyFloat(content).ok THEN PyFloat(content) ELSE RegexNumber(content)

\* The percentage conversion left out.
NoRescale(score) == score

\* if score > 1.0: score = score / 100.0 (lines 133-134)
Rescale(score) == IF RLt(One, score) THEN RMul(score, Rat(1, 100)) ELSE score

\* score = max(0.0, min(1.0, score)) (line 138)
Clamp(score) == RMax(Zero, RMin(One, score))

\* except clause that names only the errors of the requests library.
JudgeCaughtTransportOnly(exc) == exc \in {"timeout", "transport"}

\* except Exception (line 143)
JudgeCaught(exc) == exc \in {"timeout", "transport", "json", "attribute", "index"}

ExceptionReplies == {"timeout", "transport", "bad_json", "body_not_object",
                     "empty_choices", "null_content"}

Reply(kind, content) == [kind |-> kind, content |-> content]

\* The try block (lines 96-142): it returns a score, raises, or falls
\* through to the fallback.
TryBlock(reply) ==
    CASE reply.kind \in {"timeout", "transport"} ->
           [kind |-> "raise", exc |-> reply.kind, v |-> Zero]
      [] reply.kind = "not_ok" ->
           [kind |-> "fallthrough", exc |-> "none", v |-> Zero]
      [] reply.kind = "bad_json" ->
           [kind |-> "raise", exc |-> "json", v |-> Zero]
      [] reply.kind \in {"body_not_object", "null_content"} ->
           [kind |-> "raise", exc |-> "attribute", v |-> Zero]
      [] reply.kind = "empty_choices" ->
           [kind |-> "raise", exc |-> "index", v |-> Zero]
      [] reply.kind \in {"no_choices", "content"} ->
           LET content == IF reply.kind = "content" THEN Strip(reply.content) ELSE <<>>
               score == ParseScore(content)
           IN  IF score.ok
               THEN [kind |-> "return", exc |-> "none", v |-> Clamp(Rescale(score.v))]
               ELSE [kind |-> "fallthrough", exc |-> "none", v |-> Zero]

Outcome(value, raised, calls, via) ==
    [value |-> value, raised |-> raised, calls |-> calls, via |-> via]

\* A second request after a failed one.
evaluate_correctness_retry(api_key, initial_request, final_output, reply) ==
    IF initial_request = <<>> \/ final_output = <<>> THEN Outcome(Zero, FALSE, 0, "guard")
    ELSE IF ~api_key
    THEN Outcome(fallback_correctness(initial_request, final_output), FALSE, 0, "nokey")
    ELSE LET t == TryBlock(reply)
         IN  IF t.kind = "return" THEN Outcome(t.v, FALSE, 1, "llm")
             ELSE Outcome(fallback_correctness(initial_request, final_output),
                          FALSE, 2, "fallback")

evaluate_correctness(api_key, initial_request, final_output, reply) ==
    IF initial_request = <<>> \/ final_output = <<>> THEN Outcome(Zero, FALSE, 0, "guard")
    ELSE IF ~api_key
    THEN Outcome(fallback_correctness(initial_request, final_output), FALSE, 0, "nokey")
    ELSE LET t == TryBlock(reply)
         IN  IF t.kind = "return" THEN Outcome(t.v, FALSE, 1, "llm")
             ELSE IF t.kind = "raise" /\ ~JudgeCaught(t.exc)
             THEN Outcome(Zero, TRUE, 1, "raised")
             ELSE Outcome(fallback_correctness(initial_request, final_output),
                          FALSE, 1, "fallback")

---------------------------------------------------------------------------
(* Calls of the judge *)

Requests ==
    {<<>>, <<" ">>, <<"the">>, <<"Open", " ", "the", " ", "file">>,
     <<"open", " ", "browser">>}

Outputs ==
    {<<>>, <<" ">>, <<"ok">>, <<"file", " ", "open", " ", "ok">>,
     <<"browser", " ", "open", " ", "the", " ", "file">>}

RECURSIVE TextsUpTo(_)
TextsUpTo(n) ==
    IF n = 0 THEN {<<>>}
    ELSE LET shorter == TextsUpTo(n - 1)
         IN  shorter \cup {Append(t, c) : t \in shorter, c \in ReplyChars}

Replies ==
    {Reply(k, <<>>) : k \in ExceptionReplies \cup {"not_ok", "no_choices"}}
    \cup {Reply("content", t) : t \in TextsUpTo(MaxLen)}

NoOutcome == Outcome(Zero, FALSE, 0, "none")

JudgeInit ==
    /\ judge \in [phase : {"called"}, api_key : BOOLEAN, initial_request : Requests,
                  final_output : Outputs, reply : Replies, res : {NoOutcome}]
    /\ fs = [p \in JsonPaths |-> "absent"]
    /\ pc = "start"
    /\ todo = {}
    /\ processed_files = {}
    /\ log = <<>>
    /\ shots = <<>>
    /\ events = <<>>
    /\ crashed = FALSE
    /\ lastCall = Called("", "none", "none")
    /\ failures = {}
    /\ extracted = {}
    /\ nops = 0
    /\ scoring = ScoringIdle
    /\ extraction = ExtractionIdle
    /\ threads = NoThreads
    /\ worker = WorkerIdle

Evaluate ==
    /\ judge.phase = "called"
    /\ judge' = [judge EXCEPT
           !.phase = "returned",
           !.res = evaluate_correctness(judge.api_key, judge.initial_request,
                                        judge.final_output, judge.reply)]
    /\ UNCHANGED <<watcherVars, otherCalls>>

JudgeNext == Evaluate

JudgeSpec == JudgeInit /\ [][JudgeNext]_vars

---------------------------------------------------------------------------
(* Properties of the Correctness Judge *)

Returned == judge.phase = "returned"

Blank(s) == Strip(s) = <<>>

InUnit(v) == RLe(Zero, v) /\ RLe(v, One)

\* C7: evaluate_correctness returns 0.0 and makes no external call whenever
\* initial_request or final_output is empty or holds only whitespace.
C7_BlankScoresZero ==
    (Returned /\ (Blank(judge.initial_request) \/ Blank(judge.final_output)))
        => (judge.res.value = Zero /\ judge.res.calls = 0)

\* C8: for every pair of strings and every outcome of the external call,
\* evaluate_correctness raises nothing and returns a number in [0, 1].
C8_Total == Returned => (~judge.res.raised /\ InUnit(judge.res.value))

\* The reply carried a null content, which the try block cannot strip, and
\* the call still returned the fallback value.
C8_Witness ==
    /\ Returned /\ judge.api_key
    /\ judge.reply.kind = "null_content"
    /\ judge.res.via = "fallback" /\ ~judge.res.raised

ParsedReply == ParseScore(Strip(judge.reply.content)).v

\* C9: a parsed value above 1 is divided by 100 and then clamped, so "75"
\* yields 0.75; a parsed value in [0, 1] is returned unchanged; the result
\* lies in [0, 1].
C9_PercentageThenClamp ==
    (Returned /\ judge.res.via = "llm" /\ judge.reply.kind = "content") =>
        /\ RLt(One, ParsedReply) =>
               judge.res.value = RMin(One, RMul(ParsedReply, Rat(1, 100)))
        /\ InUnit(ParsedReply) => judge.res.value = ParsedReply
        /\ InUnit(judge.res.value)
        /\ judge.reply.content = <<"7", "5">> => judge.res.value = Rat(3, 4)

\* The reply "75" was scored 0.75.
C9_Witness ==
    /\ Returned /\ judge.res.via = "llm"
    /\ judge.reply.content = <<"7", "5">>
    /\ judge.res.value = Rat(75, 100)

\* C10 as stated: at most one external request per call, none without an
\* API key, and without an API key the value of the heuristic is returned.
C10_Original ==
    Returned =>
        /\ judge.res.calls <= 1
        /\ ~judge.api_key =>
               /\ judge.res.calls = 0
               /\ judge.res.value =
                      fallback_correctness(judge.initial_request, judge.final_output)

\* C10 as amended: at most one external request per call and none without
\* an API key; without an API key the value of the heuristic is returned
\* when both strings are non-empty, and 0.0 when either is empty.
C10_AtMostOneRequest ==
    Returned =>
        /\ judge.res.calls <= 1
        /\ ~judge.api_key =>
               /\ judge.res.calls = 0 /\ ~judge.res.raised
               /\ IF judge.initial_request # <<>> /\ judge.final_output # <<>>
                  THEN judge.res.value =
                           fallback_correctness(judge.initial_request, judge.final_output)
                  ELSE judge.res.value = Zero

\* The one request timed out and the call returned the heuristic value
\* without a second request.
C10_Witness ==
    /\ Returned /\ judge.api_key
    /\ judge.reply.kind = "timeout"
    /\ judge.res.calls = 1 /\ judge.res.via = "fallback"

\* The request was sent: there is an API key and both strings are non-empty.
RequestSent ==
    Returned /\ judge.api_key /\ judge.initial_request # <<>> /\ judge.final_output # <<>>

\* The call came back with an OK status and a text holding a number, that
\* is, holding a digit.
ReplyHoldsNumber ==
    /\ judge.reply.kind = "content"
    /\ \E i \in DOMAIN judge.reply.content : judge.reply.content[i] \in Digits

\* C20: when the request was sent and it raised, timed out, came back
\* with a non-OK status or with a body or text holding no number, the call
\* returns the value of _fallback_correctness for the same two strings;
\* when the text holds a number, the call returns from the try block with
\* the rescaled and clamped number and never reaches the heuristic.
C20_FallbackOnFailure ==
    RequestSent =>
        IF ReplyHoldsNumber
        THEN /\ judge.res.via = "llm"
             /\ judge.res.value = Clamp(Rescale(ParsedReply))
        ELSE /\ judge.res.via = "fallback" /\ ~judge.res.raised
             /\ judge.res.value =
                    fallback_correctness(judge.initial_request, judge.final_output)

\* The reply "%" holds no number and the call returned the heuristic's
\* value for a request and an output that share words, a value that is
\* neither 0 nor 1.
C20_Witness ==
    /\ RequestSent
    /\ judge.reply = Reply("content", <<"%">>)
    /\ judge.res.via = "fallback"
    /\ judge.res.value =
           fallback_correctness(judge.initial_request, judge.final_output)
    /\ RLt(Zero, judge.res.value) /\ RLt(judge.res.value, One)

---------------------------------------------------------------------------
(* ScoringEngine (scoring_engine.py).  A metric is a JSON number, a status *)
(* is a string cut into pieces such as <<"complete", "d">>, and the judge  *)
(* handed to the constructor is whatever object the caller configured: it  *)
(* is absent, returns a number, or raises.                                 *)

Float(r) == [t |-> "float", v |-> r]
PyDecimal(r) == [t |-> "decimal", v |-> r]

RDiv(a, b) == Rat(a[1] * b[2], a[2] * b[1])

\* 1.0 / (1.0 + x)
Inverse(x) == RDiv(One, RAdd(One, x))

\* Every sub-score weighted alike.
EqualWeights ==
    [correctness |-> Rat(1, 6), efficiency |-> Rat(1, 6), quality |-> Rat(1, 6),
     stability |-> Rat(1, 6), autonomy |-> Rat(1, 6), resource_efficiency |-> Rat(1, 6)]

\* Lines 14-21
DEFAULT_WEIGHTS ==
    [correctness |-> Rat(35, 100), efficiency |-> Rat(15, 100),
     quality |-> Rat(15, 100), stability |-> Rat(10, 100),
     autonomy |-> Rat(15, 100), resource_efficiency |-> Rat(10, 100)]

\* _clip (lines 35-36)
clip(v) == IF RLt(v, Zero) THEN Zero ELSE IF RLt(One, v) THEN One ELSE v

\* float(x) of a JSON number
FloatOf(x) == IF x.t = "num" THEN Rat(x.v, 1) ELSE x.v

\* An absent retry_count counts as 1.
MetricRetryDefaultOne(m, k) ==
    IF Has(m, k) THEN FloatOf(m.v[k]) ELSE IF k = "retry_count" THEN One ELSE Zero

\* float(m.get(k, 0)) of lines 66-72
Metric(m, k) == IF Has(m, k) THEN FloatOf(m.v[k]) ELSE Zero

\* round(v, 4) of lines 208-214
Round4(v) ==
    LET hundredths == (v[1] * 100) \div v[2]
        rest == (v[1] * 100) % v[2]
    IN  Rat(hundredths * 100 + (rest * 200 + v[2]) \div (2 * v[2]), 10000)

Contains(text, w) == \E i \in 1..Len(text) : text[i] = w

\* The status test of lines 45 and 57, 137-138 and 145-146:
\* status = str(entry.get("status") or "").lower();
\* "done" in status or "complete" in status or status == "success"
Completes(entry) ==
    LET raw == Get(entry, "status")
        status == IF Truthy(raw) /\ IsStr(raw)
                  THEN [i \in 1..Len(raw.v) |-> Lower(raw.v[i])]
                  ELSE <<>>
    IN  Contains(status, "done") \/ Contains(status, "complete") \/ status = <<"success">>

\* The progress ratio taken from the progress value alone.
RatioIgnoringStatus(last) ==
    LET prog == Get(last, "progress")
        n == CASE prog.t = "decimal" -> [ok |-> TRUE, v |-> prog.v]
               [] prog.t = "str" -> PyFloat(Strip(prog.v))
               [] prog.t \in {"num", "float"} -> [ok |-> TRUE, v |-> FloatOf(prog)]
               [] OTHER -> [ok |-> FALSE, v |-> Zero]
    IN  IF ~n.ok THEN Zero
        ELSE IF RLe(n.v, One) THEN RMax(Zero, RMin(One, n.v))
        ELSE RMin(One, RMul(n.v, Rat(1, 100)))

\* A string that float() rejects counted as full progress.
RatioUnparsedAsFull(last) ==
    LET prog == Get(last, "progress")
    IN  IF prog.t = "str" /\ ~PyFloat(Strip(prog.v)).ok THEN One
        ELSE IF Completes(last) THEN One
        ELSE RatioIgnoringStatus(last)

\* Lines 44-58: the progress ratio of the last progress entry.
progress_ratio(last) ==
    LET prog == Get(last, "progress")
        n == CASE prog.t = "decimal" -> [ok |-> TRUE, v |-> prog.v]
               [] prog.t = "str" -> PyFloat(Strip(prog.v))
               [] prog.t \in {"num", "float"} -> [ok |-> TRUE, v |-> FloatOf(prog)]
               [] OTHER -> [ok |-> FALSE, v |-> Zero]
        ratio == IF ~n.ok THEN Zero
                 ELSE IF RLe(n.v, One) THEN RMax(Zero, RMin(One, n.v))
                 ELSE RMin(One, RMul(n.v, Rat(1, 100)))
    IN  IF Completes(last) THEN RMax(ratio, One) ELSE ratio

Progress(data) == GetD(data, "progress", List(<<>>))

LastEntry(progress) == progress.v[Len(progress.v)]

\* _heuristic_correctness (lines 38-59); raised stands for the
\* AttributeError of last.get on an entry that is not a mapping.
heuristic_correctness(data, error_count) ==
    LET progress == Progress(data)
        ratio == IF Truthy(progress) THEN progress_ratio(LastEntry(progress)) ELSE Zero
    IN  IF Truthy(progress) /\ ~IsDict(LastEntry(progress))
        THEN [raised |-> TRUE, v |-> Zero]
        ELSE [raised |-> FALSE,
              v |-> clip(RAdd(RMul(Rat(9, 10), ratio),
                              RMul(Rat(1, 10), Inverse(error_count))))]

\* The test without the strip.
HasTextUnstripped(data, k) == GetD(data, k, Str(<<>>)).v # <<>>

\* bool(text and text.strip()) of lines 80-81
HasText(data, k) == Strip(GetD(data, k, Str(<<>>)).v) # <<>>

NoJudge == [kind |-> "none", v |-> Zero]
JudgeReturns(v) == [kind |-> "returns", v |-> v]
JudgeRaises == [kind |-> "raises", v |-> Zero]

\* Lines 96-130: the correctness before the completion floor.
Correctness(data, llm, error_count) ==
    LET h == heuristic_correctness(data, error_count)
    IN  IF llm.kind # "none" /\ HasText(data, "initial_request") /\ HasText(data, "final_output")
        THEN IF llm.kind = "returns"
             THEN [raised |-> FALSE, v |-> llm.v, method |-> "llm", judge_calls |-> 1]
             ELSE [raised |-> h.raised, v |-> h.v, method |-> "heuristic", judge_calls |-> 1]
        ELSE [raised |-> h.raised, v |-> h.v, method |-> "heuristic", judge_calls |-> 0]

\* Lines 133-147; raised stands for the AttributeError of last.get or
\* task_info.get on a value that is not a mapping.
Completion(data) ==
    LET progress == Progress(data)
        task_info == Get(data, "task_info")
    IN  IF Truthy(progress) /\ ~IsDict(LastEntry(progress))
        THEN [raised |-> TRUE, is_completed |-> FALSE]
        ELSE IF Truthy(progress) /\ Completes(LastEntry(progress))
        THEN [raised |-> FALSE, is_completed |-> TRUE]
        ELSE IF Truthy(task_info) /\ ~IsDict(task_info)
        THEN [raised |-> TRUE, is_completed |-> FALSE]
        ELSE [raised |-> FALSE, is_completed |-> Truthy(task_info) /\ Completes(task_info)]

\* The floor applied to every completed task.
FloorAlways(is_completed, correctness) == IF is_completed THEN Rat(3, 10) ELSE correctness

\* The floor left out.
NoFloor(is_completed, correctness) == correctness

\* The floor at 0.95.
FloorBelow95(is_completed, correctness) ==
    IF is_completed /\ RLt(correctness, Rat(95, 100)) THEN Rat(95, 100) ELSE correctness

\* Lines 150-158
Floor(is_completed, correctness) ==
    IF is_completed /\ RLt(correctness, Rat(3, 10)) THEN Rat(3, 10) ELSE correctness

Metrics(data) == GetD(data, "metrics", Dict(<<>>))

\* Lines 167-180
SubScores(m) ==
    LET error_count == Metric(m, "error_count")
        retry_count == Metric(m, "retry_count")
        deps == Metric(m, "human_or_agent_requests")
        completion_time == Metric(m, "completion_time_s")
        total_api_calls == Metric(m, "total_api_calls")
        mem == Metric(m, "memory_usage_mb")
        cpu == Metric(m, "cpu_usage_percent")
    IN  [efficiency |->
             clip(RAdd(RAdd(
                 RMul(Rat(4, 10), Inverse(RMul(completion_time, Rat(1, 300)))),
                 RMul(Rat(3, 10), Inverse(RMul(total_api_calls, Rat(1, 50))))),
                 RMul(Rat(3, 10), Inverse(retry_count)))),
         quality |->
             clip(RAdd(RMul(Rat(6, 10), Inverse(error_count)),
                       RMul(Rat(4, 10), Inverse(retry_count)))),
         stability |->
             clip(RAdd(RMul(Rat(5, 10), Inverse(error_count)),
                       RMul(Rat(5, 10), Inverse(RMul(completion_time, Rat(1, 600)))))),
         autonomy |-> clip(Inverse(deps)),
         resource_efficiency |->
             clip(RAdd(RMul(Rat(5, 10), Inverse(RMul(mem, Rat(1, 1024)))),
                       RMul(Rat(5, 10), Inverse(RMul(cpu, Rat(1, 100))))))]

\* The error penalty without its cap.
PenaltiesUncapped(m) ==
    [dependency_penalty |->
         RMin(Rat(3, 10), RMul(Rat(5, 100), Metric(m, "human_or_agent_requests"))),
     timeout_penalty |-> Zero,
     error_penalty |-> RMul(Rat(5, 100), Metric(m, "error_count"))]

\* Lines 182-186
Penalties(m) ==
    [dependency_penalty |->
         RMin(Rat(3, 10), RMul(Rat(5, 100), Metric(m, "human_or_agent_requests"))),
     timeout_penalty |-> Zero,
     error_penalty |-> RMin(Rat(3, 10), RMul(Rat(5, 100), Metric(m, "error_count")))]

\* Lines 188-205; s is the record of sub-scores of lines 167-180.
FinalScore(correctness, s, m) ==
    LET w == DEFAULT_WEIGHTS
        p == Penalties(m)
        terms == <<RMul(w.correctness, correctness),
                   RMul(w.efficiency, s.efficiency),
                   RMul(w.quality, s.quality),
                   RMul(w.stability, s.stability),
                   RMul(w.autonomy, s.autonomy),
                   RMul(w.resource_efficiency, s.resource_efficiency)>>
        weighted ==
            RAdd(RAdd(RAdd(RAdd(RAdd(terms[1], terms[2]), terms[3]), terms[4]),
                      terms[5]), terms[6])
        total == RAdd(RAdd(p.dependency_penalty, p.timeout_penalty), p.error_penalty)
        final_score == RMax(Zero, RSub(weighted, total))
        cost == Metric(m, "cost_usd")
    IN  IF RLt(Zero, cost)
        THEN RMax(Zero, RSub(final_score, RMin(Rat(1, 10), RMul(cost, Rat(1, 10)))))
        ELSE final_score

ScoreKeys == {"correctness", "efficiency", "quality", "stability", "autonomy",
              "resource_efficiency", "final_score"}

PenaltyKeys == {"dependency_penalty", "timeout_penalty", "error_penalty"}

NoReport ==
    [raised |-> TRUE, scores |-> << >>, penalties |-> << >>, method |-> "none",
     judge_calls |-> 0, is_completed |-> FALSE, floored |-> FALSE]

\* score_task (lines 61-217)
score_task(data, llm) ==
    LET m == Metrics(data)
        c == Correctness(data, llm, Metric(m, "error_count"))
        done == Completion(data)
    IN  IF c.raised \/ done.raised
        THEN [NoReport EXCEPT !.judge_calls = c.judge_calls]
        ELSE
        LET correctness == Floor(done.is_completed, c.v)
            s == SubScores(m)
        IN  [raised |-> FALSE,
             scores |->
                 [correctness |-> Round4(correctness),
                  efficiency |-> Round4(s.efficiency),
                  quality |-> Round4(s.quality),
                  stability |-> Round4(s.stability),
                  autonomy |-> Round4(s.autonomy),
                  resource_efficiency |-> Round4(s.resource_efficiency),
                  final_score |-> Round4(FinalScore(correctness, s, m))],
             penalties |-> Penalties(m),
             method |-> c.method,
             judge_calls |-> c.judge_calls,
             is_completed |-> done.is_completed,
             floored |-> correctness # c.v]

---------------------------------------------------------------------------
(* Calls of score_task *)

Absent == [t |-> "absent"]

\* The mapping that holds the keys of r whose value is not Absent.
Mapping(r) == Dict([k \in {j \in DOMAIN r : r[j].t # "absent"} |-> r[k]])

MetricFields ==
    {"error_count", "retry_count", "human_or_agent_requests", "completion_time_s",
     "total_api_calls", "memory_usage_mb", "cpu_usage_percent", "cost_usd"}

ErrorCounts == {0, 1, 6, 7, 199, 200}

\* A healthy run: no errors, no retries, two minutes, ten API calls.
HealthyRun(error_count) ==
    [error_count |-> Num(error_count), retry_count |-> Num(0),
     human_or_agent_requests |-> Num(0), completion_time_s |-> Num(120),
     total_api_calls |-> Num(10), memory_usage_mb |-> Num(256),
     cpu_usage_percent |-> Num(20), cost_usd |-> Num(0)]

\* Every subset of the fields of a healthy run.
PartialMetrics ==
    {Dict([k \in present |-> HealthyRun(e)[k]]) :
        present \in SUBSET MetricFields, e \in {0, 7}}

LoadedRuns ==
    {Dict([HealthyRun(e) EXCEPT !.retry_count = Num(r),
                                !.human_or_agent_requests = Num(d),
                                !.completion_time_s = Num(t),
                                !.cost_usd = c]) :
        e \in ErrorCounts, r \in {0, 3}, d \in {0, 2, 7}, t \in {0, 600},
        c \in {Num(0), Float(Rat(1, 2)), Num(2)}}

Statuses ==
    {Absent, Null, Str(<<"success">>), Str(<<"Done">>), Str(<<"complete", "d">>),
     Str(<<"success", "ful">>), Str(<<"running">>)}

ProgressValues ==
    {Absent, Null, Num(0), Num(1), Num(50), Num(150), Float(Rat(1, 5)),
     Str(<<"5", "0">>), Str(<<" ", "0", ".", "5">>), Str(<<"a", "b", "c">>),
     PyDecimal(Rat(1, 2)), List(<<>>)}

ProgressEntries ==
    {Mapping([status |-> st, progress |-> pr]) : st \in Statuses, pr \in ProgressValues}

ProgressLists ==
    {Absent, List(<<>>), List(<<Str(<<"done">>)>>),
     List(<<Mapping([status |-> Str(<<"success">>), progress |-> Num(1)]),
            Mapping([status |-> Str(<<"running">>), progress |-> Num(50)])>>)}
    \cup {List(<<e>>) : e \in ProgressEntries}

TaskInfos ==
    {Absent, Mapping([status |-> Str(<<"complete", "d">>)]),
     Mapping([status |-> Str(<<"failed">>)])}

Judges ==
    {NoJudge, JudgeRaises}
    \cup {JudgeReturns(v) : v \in {Rat(-1, 2), Rat(1, 5), Rat(3, 2)}}

Asked == Str(<<"open", " ", "browser">>)

\* initial_request and final_output
Texts == {<<Absent, Absent>>, <<Asked, Asked>>, <<Str(<<" ">>), Asked>>, <<Asked, Absent>>}

TaskData(metrics, progress, initial_request, final_output, task_info) ==
    Mapping([metrics |-> metrics, progress |-> progress,
             initial_request |-> initial_request, final_output |-> final_output,
             task_info |-> task_info])

Succeeded == List(<<Mapping([status |-> Str(<<"success">>), progress |-> Num(1)])>>)

ScoreCall(data, llm) == [phase |-> "called", data |-> data, llm |-> llm, res |-> NoReport]

\* Progress, request and output, and judge of the calls that vary the metrics.
Settings ==
    {<<Absent, Absent, NoJudge>>, <<Absent, Absent, JudgeReturns(Rat(1, 5))>>,
     <<Succeeded, Absent, NoJudge>>, <<Succeeded, Asked, JudgeReturns(Rat(1, 5))>>}

\* Calls that vary the metrics, and calls that vary everything else.
ScoreCalls ==
    {ScoreCall(TaskData(m, c[1], c[2], c[2], Absent), c[3]) :
        m \in {Absent} \cup PartialMetrics \cup LoadedRuns, c \in Settings}
    \cup
    {ScoreCall(TaskData(Dict(HealthyRun(7)), pr, t[1], t[2], ti), llm) :
        pr \in ProgressLists, t \in Texts, ti \in TaskInfos, llm \in Judges}

WatcherAtRest ==
    /\ fs = [p \in JsonPaths |-> "absent"]
    /\ pc = "start"
    /\ todo = {}
    /\ processed_files = {}
    /\ log = <<>>
    /\ shots = <<>>
    /\ events = <<>>
    /\ crashed = FALSE
    /\ lastCall = Called("", "none", "none")
    /\ failures = {}
    /\ extracted = {}
    /\ nops = 0

ScoreInit ==
    /\ scoring \in ScoreCalls
    /\ WatcherAtRest
    /\ judge = JudgeIdle
    /\ extraction = ExtractionIdle
    /\ threads = NoThreads
    /\ worker = WorkerIdle

Score ==
    /\ scoring.phase = "called"
    /\ scoring' = [scoring EXCEPT !.phase = "returned",
                                  !.res = score_task(scoring.data, scoring.llm)]
    /\ UNCHANGED <<watcherVars, judge, extraction, threads, worker>>

ScoreNext == Score

ScoreSpec == ScoreInit /\ [][ScoreNext]_vars

---------------------------------------------------------------------------
(* Properties of the Scoring Engine *)

Scored == scoring.phase = "returned"

Reported == Scored /\ ~scoring.res.raised

\* C11: for every input to score_task (any metrics, any progress sequence,
\* any value returned by the configured judge) each of the seven reported
\* scores lies in [0, 1].
C11_ScoresInUnit ==
    Reported => \A k \in ScoreKeys : InUnit(scoring.res.scores[k])

\* The task data with every absent metric field written out as 0.
ZeroFilled(data) ==
    LET m == Metrics(data)
        filled == Dict([k \in MetricFields |-> IF Has(m, k) THEN m.v[k] ELSE Num(0)])
    IN  Dict([k \in DOMAIN data.v \cup {"metrics"} |->
                 IF k = "metrics" THEN filled ELSE data.v[k]])

\* Every progress entry and the task_info, when given, are mappings.
WellFormed(data) ==
    /\ \A i \in 1..Len(Progress(data).v) : IsDict(Progress(data).v[i])
    /\ Has(data, "task_info") => IsDict(Get(data, "task_info"))

SomethingAbsent(data) ==
    \/ \E k \in {"metrics", "progress", "initial_request", "final_output"} : ~Has(data, k)
    \/ \E k \in MetricFields : ~Has(Metrics(data), k)

\* C12: when any subset of the metric fields, the whole metrics mapping,
\* the progress list, the request or the output is absent, score_task
\* raises nothing and returns all seven scores and all three penalties,
\* and the report is the one of the same task with 0 for each absent metric.
C12_AbsentPartsDefault ==
    (Scored /\ SomethingAbsent(scoring.data) /\ WellFormed(scoring.data)) =>
        /\ ~scoring.res.raised
        /\ DOMAIN scoring.res.scores = ScoreKeys
        /\ DOMAIN scoring.res.penalties = PenaltyKeys
        /\ scoring.res = score_task(ZeroFilled(scoring.data), scoring.llm)

\* A judge is configured and the task data is the empty mapping: the
\* report comes from the heuristic with every metric at 0.
C12_Witness ==
    /\ Reported
    /\ scoring.data = Dict(<<>>)
    /\ scoring.llm.kind = "returns"
    /\ scoring.res.method = "heuristic"
    /\ scoring.res.scores.quality = One

\* The status of a progress entry or of task_info as it was given.
GivenStatus(entry) ==
    IF IsDict(entry) /\ Has(entry, "status") /\ IsStr(Get(entry, "status"))
    THEN Get(entry, "status").v ELSE <<>>

SaysDone(status) ==
    Contains(status, "done") \/ Contains(status, "complete") \/ status = <<"success">>

\* The last progress entry says so, or else task_info does.
JudgedComplete(data) ==
    \/ Truthy(Progress(data)) /\ SaysDone(GivenStatus(LastEntry(Progress(data))))
    \/ Has(data, "task_info") /\ SaysDone(GivenStatus(Get(data, "task_info")))

\* The correctness the judge or the heuristic gave, before any floor.
Obtained == Correctness(scoring.data, scoring.llm,
                        Metric(Metrics(scoring.data), "error_count")).v

\* C13: if the task is judged complete and the correctness obtained from
\* the judge or the heuristic is below 0.3, the reported correctness is
\* exactly 0.3 and 0.3 is the value used in the weighted sum.
C13_CompletionFloor ==
    (Reported /\ JudgedComplete(scoring.data) /\ RLt(Obtained, Rat(3, 10))) =>
        /\ scoring.res.scores.correctness = Rat(3, 10)
        /\ scoring.res.scores.final_score =
               Round4(FinalScore(Rat(3, 10), SubScores(Metrics(scoring.data)),
                                 Metrics(scoring.data)))

\* The judge returned 0.2 for a task whose last status is "success", and
\* the report says 0.3.
C13_Witness ==
    /\ Reported
    /\ scoring.llm = JudgeReturns(Rat(1, 5))
    /\ scoring.res.method = "llm"
    /\ Truthy(Progress(scoring.data))
    /\ GivenStatus(LastEntry(Progress(scoring.data))) = <<"success">>
    /\ Has(scoring.data, "metrics")
    /\ scoring.res.scores.correctness = Rat(3, 10)

\* The same task with another error_count.
WithErrorCount(data, e) ==
    LET m == Metrics(data)
        changed == Dict([k \in DOMAIN m.v \cup {"error_count"} |->
                            IF k = "error_count" THEN Num(e) ELSE m.v[k]])
    IN  Dict([k \in DOMAIN data.v \cup {"metrics"} |->
                 IF k = "metrics" THEN changed ELSE data.v[k]])

ErrorCount == Metric(Metrics(scoring.data), "error_count")

\* The error counts of the model above the one of the call.
MoreErrors == {e \in ErrorCounts : RLt(ErrorCount, Rat(e, 1))}

ReportWith(e) == score_task(WithErrorCount(scoring.data, e), scoring.llm)

Unrounded(e) == SubScores(Metrics(WithErrorCount(scoring.data, e)))

TenThousandth == Rat(1, 10000)

\* C14 as stated: with all other inputs fixed, a larger error_count gives
\* a strictly smaller reported quality, a strictly smaller reported
\* stability and a strictly smaller error penalty.
C14_Original ==
    Reported => \A e \in MoreErrors : \A other \in {ReportWith(e)} :
        /\ RLt(other.scores.quality, scoring.res.scores.quality)
        /\ RLt(other.scores.stability, scoring.res.scores.stability)
        /\ RLt(other.penalties.error_penalty, scoring.res.penalties.error_penalty)

\* C14 as amended: a larger error_count never raises the reported quality
\* or stability and lowers each of them strictly when the values before
\* rounding differ by 0.0001 or more; it never lowers the error penalty,
\* which grows strictly exactly while the smaller count is below 6.
C14_ErrorsLowerQuality ==
    Reported => \A e \in MoreErrors :
        \A other \in {ReportWith(e)}, before \in {SubScores(Metrics(scoring.data))},
           after \in {Unrounded(e)} :
            /\ RLe(other.scores.quality, scoring.res.scores.quality)
            /\ RLe(other.scores.stability, scoring.res.scores.stability)
            /\ RLe(TenThousandth, RSub(before.quality, after.quality))
                   => RLt(other.scores.quality, scoring.res.scores.quality)
            /\ RLe(TenThousandth, RSub(before.stability, after.stability))
                   => RLt(other.scores.stability, scoring.res.scores.stability)
            /\ RLe(scoring.res.penalties.error_penalty, other.penalties.error_penalty)
            /\ RLt(scoring.res.penalties.error_penalty, other.penalties.error_penalty)
                   <=> RLt(ErrorCount, Rat(6, 1))

\* A run with 199 errors: with 200 errors the reported quality and
\* stability are the same four decimals and the error penalty stays 0.3.
C14_Witness ==
    /\ Reported
    /\ ErrorCount = Rat(199, 1)
    /\ ReportWith(200).scores.quality = scoring.res.scores.quality
    /\ ReportWith(200).scores.stability = scoring.res.scores.stability
    /\ ReportWith(200).penalties.error_penalty = Rat(3, 10)
    /\ scoring.res.penalties.error_penalty = Rat(3, 10)

\* No judge, the metrics of a healthy run without errors, and one progress
\* entry with status "success" and progress 1.
HealthyAndSucceeded ==
    /\ scoring.llm = NoJudge
    /\ Metrics(scoring.data) = Dict(HealthyRun(0))
    /\ Progress(scoring.data) = Succeeded

\* C15: with no judge, metrics {error_count 0, retry_count 0,
\* completion_time_s 120, total_api_calls 10, memory_usage_mb 256,
\* cpu_usage_percent 20, cost_usd 0, human_or_agent_requests 0} and progress
\* [{status "success", progress 1}] the reported correctness is 1.0, the
\* completion floor is not applied, and final_score is above 0.6.
C15_HealthyRunScore ==
    (Scored /\ HealthyAndSucceeded) =>
        /\ ~scoring.res.raised
        /\ scoring.res.scores.correctness = One
        /\ scoring.res.method = "heuristic"
        /\ scoring.res.is_completed /\ ~scoring.res.floored
        /\ RLt(Rat(6, 10), scoring.res.scores.final_score)

\* That call returned, with a final score of 0.9487.
C15_Witness ==
    /\ Reported /\ HealthyAndSucceeded
    /\ scoring.res.scores.final_score = Rat(9487, 10000)

\* The task data holds a string under k that is not blank.
NonBlank(data, k) == Has(data, k) /\ IsStr(Get(data, k)) /\ ~Blank(Get(data, k).v)

\* A judge is configured and both the request and the output are non-blank.
JudgeAsked ==
    /\ scoring.llm.kind # "none"
    /\ NonBlank(scoring.data, "initial_request")
    /\ NonBlank(scoring.data, "final_output")

\* The value of _heuristic_correctness for the task of the call.
HeuristicValue == heuristic_correctness(scoring.data, ErrorCount).v

\* C21: score_task calls the judge exactly once when a judge is configured
\* and the request and the output are both non-blank, and not at all
\* otherwise; the correctness that enters the completion floor is the
\* judge's return value when the judge was called and returned, and the
\* value of the local heuristic in every other case; an exception of the
\* judge never leaves score_task, which then raises only if it raises
\* without a judge as well.
C21_JudgeOrHeuristic ==
    Scored =>
        /\ scoring.res.judge_calls = IF JudgeAsked THEN 1 ELSE 0
        /\ Reported =>
               IF JudgeAsked /\ scoring.llm.kind = "returns"
               THEN /\ scoring.res.method = "llm"
                    /\ scoring.res.scores.correctness =
                           Round4(Floor(scoring.res.is_completed, scoring.llm.v))
               ELSE /\ scoring.res.method = "heuristic"
                    /\ scoring.res.scores.correctness =
                           Round4(Floor(scoring.res.is_completed, HeuristicValue))
        /\ (JudgeAsked /\ scoring.llm.kind = "raises") =>
               scoring.res.raised = score_task(scoring.data, NoJudge).raised

\* The judge was called and raised, and the report carries the heuristic's
\* value for a task without progress and with 7 errors: 0.1 / 8 = 0.0125.
C21_Witness ==
    /\ Reported /\ JudgeAsked
    /\ scoring.llm = JudgeRaises
    /\ scoring.res.judge_calls = 1
    /\ scoring.res.method = "heuristic"
    /\ ~scoring.res.is_completed
    /\ scoring.res.scores.correctness = Rat(125, 10000)

\* The progress list is not empty and its last entry is a mapping.
HasLastEntry(data) ==
    Truthy(Progress(data)) /\ IsDict(LastEntry(Progress(data)))

\* The number a progress value stands for: a JSON number, a decimal, or a
\* string that float() accepts after stripping.
IsNumber(x) ==
    \/ x.t \in {"num", "float", "decimal"}
    \/ x.t = "str" /\ PyFloat(Strip(x.v)).ok

NumberOf(x) ==
    IF x.t = "num" THEN Rat(x.v, 1)
    ELSE IF x.t = "str" THEN PyFloat(Strip(x.v)).v
    ELSE x.v

LowerCased(status) == [i \in 1..Len(status) |-> Lower(status[i])]

\* r of the claim for one progress entry, the status compared in lower case.
ExpectedRatio(entry) ==
    LET p == Get(entry, "progress")
    IN  IF SaysDone(LowerCased(GivenStatus(entry))) THEN One
        ELSE IF ~IsNumber(p) THEN Zero
        ELSE IF RLt(One, NumberOf(p)) THEN RMin(One, RMul(NumberOf(p), Rat(1, 100)))
        ELSE IF RLt(NumberOf(p), Zero) THEN Zero
        ELSE NumberOf(p)

\* clip(0.9 * r + 0.1 / (1 + error_count))
ExpectedHeuristic(r) ==
    LET x == RAdd(RMul(Rat(9, 10), r), RDiv(Rat(1, 10), RAdd(One, ErrorCount)))
    IN  RMax(Zero, RMin(One, x))

\* The task with its progress list replaced.
WithProgress(data, progress) ==
    Dict([k \in DOMAIN data.v \cup {"progress"} |->
             IF k = "progress" THEN progress ELSE data.v[k]])

\* Entries put in front of the progress list of the call.
EarlierEntries ==
    {Mapping([status |-> Str(<<"success">>), progress |-> Num(1)]),
     Mapping([status |-> Str(<<"running">>), progress |-> Num(150)]),
     Str(<<"done">>)}

\* C22: the local heuristic correctness is clip(0.9 r + 0.1 / (1 +
\* error_count)), where r is 0 without progress entries and otherwise
\* comes from the last entry alone: 1 when its status, in lower case,
\* contains "done" or "complete" or equals "success"; else clamp(p, 0, 1)
\* for a progress value p <= 1 and min(1, p / 100) for p > 1; no entry
\* before the last one changes the value.
C22_HeuristicFormula ==
    Scored =>
        /\ HasLastEntry(scoring.data) =>
               /\ ~heuristic_correctness(scoring.data, ErrorCount).raised
               /\ HeuristicValue =
                      ExpectedHeuristic(ExpectedRatio(LastEntry(Progress(scoring.data))))
               /\ \A e \in EarlierEntries :
                      heuristic_correctness(
                          WithProgress(scoring.data,
                                       List(<<e>> \o Progress(scoring.data).v)),
                          ErrorCount).v = HeuristicValue
               /\ heuristic_correctness(
                      WithProgress(scoring.data,
                                   List(<<LastEntry(Progress(scoring.data))>>)),
                      ErrorCount).v = HeuristicValue
        /\ ~Truthy(Progress(scoring.data)) => HeuristicValue = ExpectedHeuristic(Zero)
        /\ (Reported /\ scoring.res.method = "heuristic" /\ ~scoring.res.floored) =>
               scoring.res.scores.correctness = Round4(HeuristicValue)

\* The heuristic scored a task whose progress list ends with status
\* "running" and progress 50 after an entry with status "success" and
\* progress 1: r is 0.5 and, with 7 errors, correctness is 0.4625.
C22_Witness ==
    /\ Reported
    /\ scoring.res.method = "heuristic"
    /\ Len(Progress(scoring.data).v) = 2
    /\ GivenStatus(Progress(scoring.data).v[1]) = <<"success">>
    /\ ExpectedRatio(LastEntry(Progress(scoring.data))) = Rat(1, 2)
    /\ ErrorCount = Rat(7, 1)
    /\ scoring.res.scores.correctness = Rat(4625, 10000)

\* The progress field of the entry is absent or is no number, numeric
\* string or decimal.
Malformed(entry) == ~IsNumber(Get(entry, "progress"))

\* The entry without its progress field.
WithoutProgress(entry) ==
    Dict([k \in DOMAIN entry.v \ {"progress"} |-> entry.v[k]])

\* C23: when the progress field of the last progress entry is absent,
\* null, a list or a string that is no number, score_task raises nothing
\* and the field counts as absent: it contributes 0 to the progress ratio,
\* which is 0 unless the status of the entry indicates completion.
C23_MalformedProgressIsZero ==
    (Scored /\ HasLastEntry(scoring.data)
            /\ Malformed(LastEntry(Progress(scoring.data)))) =>
        LET last == LastEntry(Progress(scoring.data))
        IN  /\ ~scoring.res.raised
            /\ progress_ratio(last) = progress_ratio(WithoutProgress(last))
            /\ progress_ratio(last) =
                   IF SaysDone(LowerCased(GivenStatus(last))) THEN One ELSE Zero
            /\ HeuristicValue =
                   ExpectedHeuristic(IF SaysDone(LowerCased(GivenStatus(last)))
                                     THEN One ELSE Zero)

\* The last entry has status "running" and progress "abc"; the heuristic
\* gave 0.1 / 8 = 0.0125 for 7 errors.
C23_Witness ==
    /\ Reported
    /\ scoring.res.method = "heuristic"
    /\ HasLastEntry(scoring.data)
    /\ Get(LastEntry(Progress(scoring.data)), "progress") = Str(<<"a", "b", "c">>)
    /\ GivenStatus(LastEntry(Progress(scoring.data))) = <<"running">>
    /\ scoring.res.scores.correctness = Rat(125, 10000)

\* The sum of a sequence of numbers, from left to right.
RECURSIVE RSum(_)
RSum(xs) == IF xs = <<>> THEN Zero ELSE RAdd(RSum(SubSeq(xs, 1, Len(xs) - 1)), xs[Len(xs)])

MetricOfCall(k) == Metric(Metrics(scoring.data), k)

\* The six sub-scores before rounding, the correctness after the floor.
UnroundedScores ==
    [k \in ScoreKeys \ {"final_score"} |->
        IF k = "correctness" THEN Floor(scoring.res.is_completed, Obtained)
        ELSE SubScores(Metrics(scoring.data))[k]]

\* 0.35 correctness + 0.15 efficiency + 0.15 quality + 0.10 stability
\* + 0.15 autonomy + 0.10 resource_efficiency
WeightedSum(sc) ==
    RSum(<<RMul(Rat(35, 100), sc.correctness), RMul(Rat(15, 100), sc.efficiency),
           RMul(Rat(15, 100), sc.quality), RMul(Rat(10, 100), sc.stability),
           RMul(Rat(15, 100), sc.autonomy), RMul(Rat(10, 100), sc.resource_efficiency)>>)

\* The final score of the claim, from the sub-scores sc and the reported
\* penalties pen.
ExpectedFinal(sc, pen) ==
    LET base == RMax(Zero, RSub(WeightedSum(sc),
                    RSum(<<pen.dependency_penalty, pen.error_penalty,
                           pen.timeout_penalty>>)))
        cost == MetricOfCall("cost_usd")
    IN  IF RLt(Zero, cost)
        THEN RMax(Zero, RSub(base, RMin(Rat(1, 10), RDiv(cost, Rat(10, 1)))))
        ELSE base

LastStatusDone ==
    /\ Truthy(Progress(scoring.data))
    /\ SaysDone(LowerCased(GivenStatus(LastEntry(Progress(scoring.data)))))

\* Only task_info says that the task is complete.
TaskInfoAloneDone ==
    /\ ~LastStatusDone
    /\ Has(scoring.data, "task_info")
    /\ SaysDone(LowerCased(GivenStatus(Get(scoring.data, "task_info"))))

\* The floor changed the correctness that was obtained.
FloorChanged == scoring.res.scores.correctness # Round4(Obtained)

\* C29: when the correctness comes from the heuristic and the status of
\* the last progress entry indicates completion, the correctness is at
\* least 0.9 and is reported as obtained; the floor changes the reported
\* correctness only when the value came from the judge or when only
\* task_info indicates completion; and the reported correctness is never
\* below the one obtained.
C29_FloorOnlyWhereNeeded ==
    Reported =>
        /\ (scoring.res.method = "heuristic" /\ LastStatusDone) =>
               /\ RLe(Rat(9, 10), Obtained)
               /\ ~FloorChanged
        /\ FloorChanged => (scoring.res.method = "llm" \/ TaskInfoAloneDone)
        /\ RLe(Round4(Obtained), scoring.res.scores.correctness)

\* A heuristic run with 7 errors whose last entry has status "Done" and
\* progress 0: the task is completed and the correctness 0.9125 is
\* reported as it is.
C29_Witness ==
    /\ Reported
    /\ scoring.res.method = "heuristic"
    /\ LastStatusDone
    /\ Get(LastEntry(Progress(scoring.data)), "progress") = Num(0)
    /\ scoring.res.is_completed
    /\ ErrorCount = Rat(7, 1)
    /\ scoring.res.scores.correctness = Rat(9125, 10000)

---------------------------------------------------------------------------
(* Calls of _extract_messages_from_json *)

SpokenTexts == {<<"hi">>, <<" ", "hi">>, <<"hi", " ", "there", " ">>}

BlankTexts == {<<>>, <<" ">>}

Message(content) == Dict([type |-> Text("message"), content |-> content])

OutputText(t) == Dict([type |-> Text("output_text"), text |-> Str(t)])

\* The smallest documents of the five shapes that carry the text t.
EnvelopeDocs(t) ==
    {Dict([response |-> Dict([output |-> List(<<Message(List(<<c>>))>>)])]) :
        c \in {OutputText(t), Dict([text |-> Str(t)])}}

BareOutputDocs(t) ==
    {Dict([output |-> List(<<Message(c)>>)]) :
        c \in {List(<<OutputText(t)>>), List(<<Dict([text |-> Str(t)])>>), Str(t)}}

RoleDocs(t) ==
    {Dict([role |-> Text("assistant"), content |-> c]) :
        c \in {Str(t), List(<<Str(t)>>), List(<<Dict([text |-> Str(t)])>>)}}

FlatDocs(t) ==
    {Dict([k \in {FlatFields[i]} |-> v]) :
        i \in 1..Len(FlatFields), v \in {Str(t), Dict([text |-> Str(t)])}}

NestedResultDocs(t) ==
    {Dict([result |-> Dict([text |-> Str(t)])]),
     Dict([result |-> Dict([output |-> Str(t)])])}

ShapeDocs(t) ==
    EnvelopeDocs(t) \cup BareOutputDocs(t) \cup RoleDocs(t) \cup FlatDocs(t)
    \cup NestedResultDocs(t)

MinimalDocs == UNION {ShapeDocs(t) : t \in SpokenTexts}

SilentDocs == UNION {ShapeDocs(t) : t \in BlankTexts}

NonObjects ==
    {Null, Num(0), Num(1), Str(<<>>), Str(<<"hi">>), List(<<>>), List(<<Str(<<"hi">>)>>)}
    \cup {List(<<d>>) : d \in ShapeDocs(<<"hi">>)}

\* One document with the fields of two: a JSON object matching the shapes
\* of both.
Merged(a, b) == Dict(a.v @@ b.v)

\* {"response": {"output": [{"type": "message", "content": [{"text": "one"}]}]},
\*  "output": [{"type": "message", "content": " two"}],
\*  "role": "assistant", "content": "three ",
\*  "text": "four", "result": {"text": "five", "output": "six"}}
AllShapesDoc ==
    Dict([response |-> Dict([output |-> List(<<Message(List(<<
                          Dict([text |-> Str(<<"one">>)])>>))>>)]),
          output |-> List(<<Message(Str(<<" ", "two">>))>>),
          role |-> Text("assistant"),
          content |-> Str(<<"three", " ">>),
          text |-> Str(<<"four">>),
          result |-> Dict([text |-> Str(<<"five">>), output |-> Str(<<"six">>)])])

\* Documents matching several shapes: every two minimal documents with
\* different texts and no field in common, merged, and one document of all
\* five shapes.
MultiShapeDocs ==
    {Merged(a, b) : <<a, b>> \in
        {ab \in ShapeDocs(<<" ", "hi">>) \X ShapeDocs(<<"hi", " ", "there", " ">>) :
            DOMAIN ab[1].v \cap DOMAIN ab[2].v = {}}}
    \cup {AllShapesDoc}

ExtractCalls ==
    {[phase |-> "called", data |-> d, res |-> <<>>] :
        d \in MinimalDocs \cup SilentDocs \cup NonObjects \cup {Dict(<<>>)}
              \cup MultiShapeDocs}

ExtractInit ==
    /\ extraction \in ExtractCalls
    /\ WatcherAtRest
    /\ judge = JudgeIdle
    /\ scoring = ScoringIdle
    /\ threads = NoThreads
    /\ worker = WorkerIdle

Extract ==
    /\ extraction.phase = "called"
    /\ extraction' = [extraction EXCEPT !.phase = "returned",
                                        !.res = ExtractMessages(extraction.data)]
    /\ UNCHANGED <<watcherVars, judge, scoring, threads, worker>>

ExtractNext == Extract

ExtractSpec == ExtractInit /\ [][ExtractNext]_vars

---------------------------------------------------------------------------
(* Properties of the extractor *)

Extracted == extraction.phase = "returned"

\* C16: _extract_messages_from_json returns at least one message, none of
\* them empty, for a minimal document of each of the five shapes, and the
\* empty list for the empty object and for every value that is not an
\* object.
C16_ShapesYieldMessages ==
    Extracted =>
        /\ extraction.data \in MinimalDocs =>
               /\ Len(extraction.res) >= 1
               /\ \A i \in 1..Len(extraction.res) : ~Blank(extraction.res[i])
        /\ (extraction.data = Dict(<<>>) \/ extraction.data \in NonObjects) =>
               extraction.res = <<>>

\* The nested result shape with only result.output gave its trimmed text.
C16_Witness ==
    /\ Extracted
    /\ extraction.data = Dict([result |-> Dict([output |-> Str(<<" ", "hi">>)])])
    /\ extraction.res = <<(<<"hi">>)>>

\* What each of the five shapes finds in a JSON object, shape 1 first.
Contributions(data) ==
    <<Schema1(data), Schema2(data), Schema3(data), Schema4(data), Schema5(data)>>

MatchingShapes(data) == {i \in 1..5 : Contributions(data)[i] # <<>>}

\* C26: for a JSON object the extractor returns the contributions of the
\* five shapes concatenated in the order shape 1 to shape 5, so a text
\* occurs in the result as many times as it occurs in the five
\* contributions together.
C26_ShapesConcatenated ==
    (Extracted /\ IsDict(extraction.data)) =>
        LET c == Contributions(extraction.data)
        IN  /\ extraction.res = Concat(c)
            /\ \A i \in DOMAIN extraction.res :
                   Occurrences(extraction.res, extraction.res[i]) =
                       Occurrences(c[1], extraction.res[i])
                       + Occurrences(c[2], extraction.res[i])
                       + Occurrences(c[3], extraction.res[i])
                       + Occurrences(c[4], extraction.res[i])
                       + Occurrences(c[5], extraction.res[i])

\* The document of all five shapes: "three" comes from the role shape and
\* again from the flat field "content", "five" from the flat field "result"
\* and again from the nested result.
C26_Witness ==
    /\ Extracted
    /\ extraction.data = AllShapesDoc
    /\ MatchingShapes(extraction.data) = 1..5
    /\ extraction.res = <<(<<"one">>), (<<"two">>), (<<"three">>), (<<"four">>),
                          (<<"five">>), (<<"three">>), (<<"five">>), (<<"six">>)>>

---------------------------------------------------------------------------
(* Two threads inside _process_file, for the same path or for two paths:   *)
(* the observer's callback thread and a thread of the caller.  The method  *)
(* takes no lock,                                                          *)
(* so a thread can be preempted between the membership test (line 148),   *)
(* the reading of the file (lines 153-154), the insertion (line 156) and   *)
(* the sink calls (lines 159-222).  A thread is at "test", "load",         *)
(* "insert" or "emit", or has left the method: "returned" before any sink  *)
(* call, "emitted" after lines 159-222.                                    *)

Threads == {"observer", "caller"}

At(t, where) == threads[t].pc = where

Goto(t, where) == threads' = [threads EXCEPT ![t].pc = where]

RaceInit ==
    /\ fs \in {f \in [JsonPaths -> Contents] : \A p \in JsonPaths : f[p] \in ContentsOf(p)}
    /\ \E p \in JsonPaths :
           threads = [t \in Threads |->
                         [pc |-> "test", path |-> IF t = "observer" THEN "a.json" ELSE p,
                          fail |-> {}, cid |-> 0]]
    /\ pc = "watching"
    /\ todo = {}
    /\ processed_files = {}
    /\ log = <<>>
    /\ shots = <<>>
    /\ events = <<>>
    /\ crashed = FALSE
    /\ lastCall = Called("", "none", "none")
    /\ failures = {}
    /\ extracted = {}
    /\ nops = 0
    /\ judge = JudgeIdle
    /\ scoring = ScoringIdle
    /\ extraction = ExtractionIdle
    /\ worker = WorkerIdle

raceFrame == <<fs, pc, todo, events, crashed, lastCall, failures, extracted, nops,
               judge, scoring, extraction, worker>>

\* if str(file_path) in self.processed_files: return (lines 148-149)
TestMembership ==
    \E t \in Threads :
        /\ At(t, "test")
        /\ Goto(t, IF AlreadyProcessed(threads[t].path) THEN "returned" ELSE "load")
        /\ UNCHANGED <<processed_files, log, shots, raceFrame>>

\* open and json.load (lines 153-154); a failure goes to the except clause.
LoadFile ==
    \E t \in Threads :
        /\ At(t, "load")
        /\ Goto(t, IF fs[threads[t].path] \in DocNames THEN "insert" ELSE "returned")
        /\ UNCHANGED <<processed_files, log, shots, raceFrame>>

\* self.processed_files.add(str(file_path)) (line 156)
Insert ==
    \E t \in Threads :
        /\ At(t, "insert")
        /\ processed_files' = processed_files \cup {threads[t].path}
        /\ Goto(t, "emit")
        /\ UNCHANGED <<log, shots, raceFrame>>

\* The sink calls of lines 159-222, up to the first exception.  The thread
\* remembers which of its sink calls the sinks failed and the identity of
\* its invocation.
Emit ==
    \E t \in Threads : \E fail \in FailSets(threads[t].path) :
        /\ At(t, "emit")
        /\ log' = log \o NewLogs(threads[t].path,
                                 Accepted(StepsOf(threads[t].path), fail), CallId)
        /\ shots' = shots \o NewShots(threads[t].path,
                                      Accepted(StepsOf(threads[t].path), fail), CallId)
        /\ threads' = [threads EXCEPT ![t].pc = "emitted", ![t].fail = fail,
                                       ![t].cid = CallId]
        /\ UNCHANGED <<processed_files, raceFrame>>

RaceNext ==
    \/ TestMembership
    \/ LoadFile
    \/ Insert
    \/ Emit

RaceSpec == RaceInit /\ [][RaceNext]_vars

\* C17: when two _process_file invocations for the same path that is not
\* yet processed interleave, the log writes and screenshot stores of the
\* path still come from one invocation only.
C17_RaceEmitsOnce ==
    \A p \in JsonPaths : Cardinality(CallsOf(p)) <= 1

\* The document of the path parsed and none of its statements raises a
\* Python error: only a sink can fail.
SinksOnly(p) ==
    /\ fs[p] \in DocNames
    /\ \A i \in 1..Len(StepsOf(p)) : StepsOf(p)[i].op # "raise"

\* The sink calls of a file that a call site ignoring every sink failure
\* would get accepted: all but the failed ones.
AllButFailed(steps, fail) ==
    LET idx == SelectSeq([i \in 1..Len(steps) |-> i], LAMBDA i : i \notin fail)
    IN  [k \in 1..Len(idx) |-> steps[idx[k]]]

\* Thread t has left _process_file, write_log raised for one of the
\* extracted messages of its file, and no other invocation reached a sink.
InfoWriteRaised(t) ==
    /\ At(t, "emitted")
    /\ SinksOnly(threads[t].path)
    /\ \E i \in threads[t].fail : StepsOf(threads[t].path)[i].op = "info"
    /\ \A u \in Threads \ {t} : ~At(u, "emitted")

\* C18: when write_log raises for an extracted message of a file, the
\* invocation goes on with the file: every other message whose write the
\* sink accepts is logged, the images are stored and the summary entry is
\* written.
C18_LogFailureIgnored ==
    \A t \in Threads :
        InfoWriteRaised(t) =>
            LET p == threads[t].path
                rest == AllButFailed(StepsOf(p), threads[t].fail)
            IN  /\ LogOf(p, log) = NewLogs(p, rest, threads[t].cid)
                /\ ShotsOf(p, shots) = NewShots(p, rest, threads[t].cid)

\* extracted_messages of lines 160-162: the extractor's list for a JSON
\* object, the empty list for any other JSON value.
ExtractedMessages(p) ==
    IF fs[p] \in DocNames /\ IsDict(Doc(fs[p])) THEN ExtractMessages(Doc(fs[p])) ELSE <<>>

InfoEntries(p) == {i \in DOMAIN log : log[i].file = p /\ log[i].level = "info"}

\* C19: a summary entry of a file carries the message count exactly when
\* the extractor returned at least one message, and then the count is the
\* length of the extractor's list; when the extractor returned none, or the
\* document is not a JSON object, the summary carries the raw document and
\* the file has no info entry.
C19_SummaryFollowsExtraction ==
    \A p \in JsonPaths :
        /\ \A i \in Summaries(p) :
               /\ log[i].kind = "count" <=> ExtractedMessages(p) # <<>>
               /\ log[i].kind = "summary" <=> ExtractedMessages(p) = <<>>
               /\ log[i].kind = "count" => log[i].n = Len(ExtractedMessages(p))
        /\ ExtractedMessages(p) = <<>> => InfoEntries(p) = {}

\* a.json holds a JSON array and got the summary with the raw document and
\* no info entry; b.json yielded one message and got the summary with the
\* count 1 after its info entry.
C19_Witness ==
    /\ fs["a.json"] \in DocNames /\ ~IsDict(Doc(fs["a.json"]))
    /\ \E i \in Summaries("a.json") : log[i].kind = "summary"
    /\ InfoEntries("a.json") = {}
    /\ Len(ExtractedMessages("b.json")) = 1
    /\ \E i \in Summaries("b.json") : log[i].kind = "count" /\ log[i].n = 1
    /\ InfoEntries("b.json") # {}

---------------------------------------------------------------------------
(* Image file references *)

IsFileRef(x) == IsStr(x) /\ Truthy(x) /\ ~StartsWithDataImage(x.v)

\* The file references of the message content entries of a document.
ContentRefs(data) ==
    IF Has(data, "output") /\ IsList(data.v["output"])
    THEN LET output == data.v["output"].v
             PartRef(cp) ==
                 IF IsDict(cp) /\ IsFileRef(PyOr(Get(cp, "image_url"), Get(cp, "image")))
                 THEN <<PyOr(Get(cp, "image_url"), Get(cp, "image")).v>> ELSE <<>>
             ItemRefs(item) ==
                 IF IsDict(item) /\ IsText(Get(item, "type"), "message")
                    /\ IsList(GetD(item, "content", List(<<>>)))
                 THEN LET content == GetD(item, "content", List(<<>>)).v
                      IN  Concat([j \in 1..Len(content) |-> PartRef(content[j])])
                 ELSE <<>>
         IN  Concat([i \in 1..Len(output) |-> ItemRefs(output[i])])
    ELSE <<>>

\* The file reference of the fields of a computer_call_output document.
CallRefs(data) ==
    IF Has(data, "type") /\ IsText(Get(data, "type"), "computer_call_output")
       /\ IsFileRef(PyOr(Get(data, "screenshot_path"), Get(data, "image_path")))
    THEN <<PyOr(Get(data, "screenshot_path"), Get(data, "image_path")).v>>
    ELSE <<>>

\* The file references of the entries nested under "trajectory".
RECURSIVE NestedRefs(_)
NestedRefs(td) ==
    IF IsDict(td)
    THEN Concat([i \in 1..Len(ImageKeys) |->
             IF Has(td, ImageKeys[i]) /\ IsFileRef(td.v[ImageKeys[i]])
             THEN <<td.v[ImageKeys[i]].v>> ELSE <<>>])
         \o LET ks == DictKeys(td)
            IN  Concat([i \in 1..Len(ks) |-> NestedRefs(td.v[ks[i]])])
    ELSE IF IsList(td)
    THEN Concat([i \in 1..Len(td.v) |-> NestedRefs(td.v[i])])
    ELSE <<>>

FileRefs(data) ==
    IF ~IsDict(data) THEN <<>>
    ELSE ContentRefs(data) \o CallRefs(data)
         \o (IF Has(data, "trajectory") THEN NestedRefs(data.v["trajectory"]) ELSE <<>>)

\* The references that the screenshot sink received from invocation cid.
StoredRefs(p, cid) ==
    LET mine == SelectSeq(shots, LAMBDA e : e.file = p /\ e.cid = cid)
    IN  [i \in 1..Len(mine) |-> mine[i].ref]

\* Thread t has left _process_file, its document raised no Python error
\* and the sinks accepted every call.
RanClean(t) ==
    /\ At(t, "emitted")
    /\ SinksOnly(threads[t].path)
    /\ threads[t].fail = {}

\* C25: every image file reference found in message content, in the fields
\* of a computer_call_output document or nested under "trajectory" is
\* stored once per occurrence when the file exists at the given path or
\* under the trajectory root, and is not stored when it exists at neither.
C25_ReferencesResolved ==
    \A t \in Threads :
        RanClean(t) =>
            LET refs == FileRefs(Doc(fs[threads[t].path]))
            IN  \A i \in DOMAIN refs :
                    Occurrences(StoredRefs(threads[t].path, threads[t].cid), refs[i]) =
                        IF ExistsAbs(refs[i]) \/ ExistsUnderRoot(refs[i])
                        THEN Occurrences(refs, refs[i]) ELSE 0

---------------------------------------------------------------------------
(* Log entries and extraction *)

\* Every invocation for the path has left _process_file.
Settled(p) == \A t \in Threads : threads[t].path = p => ~At(t, "test") /\ ~At(t, "load")
                                      /\ ~At(t, "insert") /\ ~At(t, "emit")

EntriesMatch(p) ==
    /\ Cardinality(InfoEntries(p)) = Len(ExtractedMessages(p))
    /\ Summaries(p) # {}
    /\ \A i \in Summaries(p) :
           /\ ExtractedMessages(p) # <<>> =>
                  log[i].kind = "count" /\ log[i].n = Len(ExtractedMessages(p))
           /\ \A j \in InfoEntries(p) : j < i
    /\ \A k \in DOMAIN ExtractedMessages(p) :
           /\ ~Blank(ExtractedMessages(p)[k])
           /\ Strip(ExtractedMessages(p)[k]) = ExtractedMessages(p)[k]

\* C28: once the invocations for a processed file have ended, the file
\* has as many info entries as the extractor returned messages, its
\* summary entry carries that number as messages_count, every info entry
\* of the file precedes the summary entry, and every extracted message is
\* non-empty and trimmed.
C28_EntriesMatchExtraction ==
    \A p \in processed_files : Settled(p) => EntriesMatch(p)

---------------------------------------------------------------------------
(* execute_task_async, called by one worker process for one task after     *)
(* another.  Every call that is given a MongoDB client builds its own      *)
(* TrajectoryProcessor and observer on the same trajectories directory     *)
(* (start_processor); the agent then writes its trajectory files there.    *)
(* An observer is "none" (not built), "scanning" (inside the constructor's *)
(* _process_existing, pending = the files still to visit) or "watching"    *)
(* (started, pending = the events still to deliver).                       *)

Running == worker.cur # 0

NextTask == Cardinality(worker.returned) + 1

\* processed_files as one set shared by every instance.
AddProcessedShared(obs, k, p) ==
    [u \in DOMAIN obs |-> [obs[u] EXCEPT !.processed_files = @ \cup {p}]]

\* self.processed_files.add(str(file_path)) (line 156)
AddProcessed(obs, k, p) == [obs EXCEPT ![k].processed_files = @ \cup {p}]

\* _process_file of the instance of task k, obs being the observers once
\* the path is taken from pending.
ProcessFor(k, p, fail, obs) ==
    IF p \in obs[k].processed_files \/ fs[p] \notin DocNames
    THEN /\ worker' = [worker EXCEPT !.observers = obs]
         /\ UNCHANGED <<log, shots>>
    ELSE /\ worker' = [worker EXCEPT !.observers = AddProcessed(obs, k, p)]
         /\ log' = log \o NewLogs(p, Accepted(StepsOf(p), fail), CallId)
         /\ shots' = shots \o NewShots(p, Accepted(StepsOf(p), fail), CallId)

TaskInit ==
    /\ fs \in {f \in [JsonPaths -> Contents] :
                 f["a.json"] = "absent" /\ f["b.json"] \in {"absent", "msg"}}
    /\ pc = "start"
    /\ todo = {}
    /\ processed_files = {}
    /\ log = <<>>
    /\ shots = <<>>
    /\ events = <<>>
    /\ crashed = FALSE
    /\ lastCall = Called("", "none", "none")
    /\ failures = {}
    /\ extracted = {}
    /\ nops = 0
    /\ judge = JudgeIdle
    /\ scoring = ScoringIdle
    /\ extraction = ExtractionIdle
    /\ threads = NoThreads
    /\ worker = WorkerIdle

taskFrame == <<pc, todo, processed_files, events, crashed, lastCall, failures,
               extracted, judge, scoring, extraction, threads>>

\* What the agent writes: a.json is written whole or cut short, b.json whole.
AgentContents(p) == IF p = "a.json" THEN {"garbage", "msg"} ELSE {"msg"}

\* How a call gets to agent.run, or fails before.
Beginnings == {"config_error", "import_error", "no_client", "processor_failed", "started"}

\* execute_task_async up to agent.run (lines 74-155).  A missing key
\* (line 82) or a failed import of the agent packages (lines 85-86) ends
\* the call in its except clauses; without a client, or when
\* start_processor raises (line 153), the task runs with no observer.
TaskBegin ==
    /\ ~Running
    /\ NextTask <= MaxTasks
    /\ \E how \in Beginnings :
           worker' =
               IF how \in {"config_error", "import_error"}
               THEN [worker EXCEPT !.returned = @ \cup {NextTask}]
               ELSE IF how \in {"no_client", "processor_failed"}
               THEN [worker EXCEPT !.cur = NextTask]
               ELSE [worker EXCEPT
                        !.cur = NextTask,
                        !.observers[NextTask] =
                            [pc |-> "scanning",
                             pending |-> {p \in JsonPaths : fs[p] # "absent"},
                             processed_files |-> {}]]
    /\ UNCHANGED <<fs, log, shots, nops, taskFrame>>

\* One file of _process_existing (lines 142-144) in the new instance.
ScanFile(k) ==
    /\ worker.observers[k].pc = "scanning"
    /\ \E p \in worker.observers[k].pending : \E fail \in FailSets(p) :
           ProcessFor(k, p, fail, [worker.observers EXCEPT ![k].pending = @ \ {p}])
    /\ UNCHANGED <<fs, nops, taskFrame>>

\* observer.start() (line 313); start_processor returns the observer.
StartObserver(k) ==
    /\ worker.observers[k].pc = "scanning"
    /\ worker.observers[k].pending = {}
    /\ worker' = [worker EXCEPT !.observers[k].pc = "watching"]
    /\ UNCHANGED <<fs, log, shots, nops, taskFrame>>

\* The agent of the running task writes a trajectory file (agent.run,
\* line 170); every started observer gets the event.
AgentWrites ==
    /\ Running
    /\ worker.observers[worker.cur].pc # "scanning"
    /\ nops < MaxFsOps
    /\ \E p \in JsonPaths : \E c \in AgentContents(p) :
           /\ fs' = [fs EXCEPT ![p] = c]
           /\ worker' = [worker EXCEPT !.observers =
                  [k \in Tasks |->
                      IF worker.observers[k].pc = "watching"
                      THEN [worker.observers[k] EXCEPT !.pending = @ \cup {p}]
                      ELSE worker.observers[k]]]
    /\ nops' = nops + 1
    /\ UNCHANGED <<log, shots, taskFrame>>

\* on_created / on_modified of the instance of task k (lines 291-305).
Deliver(k) ==
    /\ worker.observers[k].pc = "watching"
    /\ \E p \in worker.observers[k].pending : \E fail \in FailSets(p) :
           ProcessFor(k, p, fail, [worker.observers EXCEPT ![k].pending = @ \ {p}])
    /\ UNCHANGED <<fs, nops, taskFrame>>

\* agent.run ends, normally or with an exception caught by the except
\* clauses (lines 187-198), and the call returns its result (line 200).
TaskReturn ==
    /\ Running
    /\ worker.observers[worker.cur].pc # "scanning"
    /\ worker' = [worker EXCEPT !.cur = 0, !.returned = @ \cup {worker.cur}]
    /\ UNCHANGED <<fs, log, shots, nops, taskFrame>>

TaskNext ==
    \/ TaskBegin
    \/ \E k \in Tasks : ScanFile(k)
    \/ \E k \in Tasks : StartObserver(k)
    \/ AgentWrites
    \/ \E k \in Tasks : Deliver(k)
    \/ TaskReturn

TaskSpec == TaskInit /\ [][TaskNext]_vars

\* The step is a _process_file call of the instance of task k: the
\* instance took a path from its pending ones.
Handles(k) ==
    /\ worker'.observers[k].pending \subseteq worker.observers[k].pending
    /\ worker'.observers[k].pending # worker.observers[k].pending

\* C27: no step removes a path from the processed_files of any instance,
\* and a step of _process_file in one instance leaves the processed_files
\* of every other instance as it was.
C27_GrowsAndIsolated ==
    [][\A k \in Tasks :
          /\ worker.observers[k].processed_files
                 \subseteq worker'.observers[k].processed_files
          /\ Handles(k) =>
                 \A u \in Tasks \ {k} :
                     worker'.observers[u].processed_files
                         = worker.observers[u].processed_files]_vars

\* The instances of the first two tasks are watching the same directory;
\* the second has processed a.json and the first has not.
C27_Witness ==
    /\ worker.observers[1].pc = "watching"
    /\ worker.observers[2].pc = "watching"
    /\ worker.observers[1].processed_files = {"b.json"}
    /\ worker.observers[2].processed_files = {"a.json", "b.json"}

\* C30: once a call of execute_task_async has returned, the observer it
\* started is no longer watching the trajectories directory.
C30_ObserverStopped ==
    \A k \in worker.returned : worker.observers[k].pc # "watching"

=============================================================================
